---- MODULE Spec2Model ----
(***************************************************************************)
(* Model of the all-is-cubes simulation core: the lighting propagation     *)
(* engine of Space (lighting.rs) and the block model with its change       *)
(* notification graph (block.rs).                                          *)
(*                                                                         *)
(* Light and colour quantities are integers in units of 1/64 (the fixed    *)
(* point unit of PackedLight), alpha values are integers in units of 1/2.  *)
(***************************************************************************)
EXTENDS Bags, FiniteSets, Integers, Sequences, TLC

(***************************************************************************)
(* Bounds of the model.                                                    *)
(***************************************************************************)
\* Largest x extent of the lit Space; the grid is MaxGridLen x 1 x 1 at most.
MaxGridLen == 3
\* Most Space::set calls in one behaviour.
MaxSets == 2
\* Extra cubes beyond the batch cap in the long Space used for the cap.
CapExtra == 2
\* Greatest resolution of the Recur blocks evaluated, and the side of the
\* Space of voxels they read.
MaxResolution == 3

(***************************************************************************)
(* Program constants.                                                      *)
(***************************************************************************)
\* PackedLight::UNIT
UNIT == 64
\* The batch cap of update_lighting_from_queue.
BatchCap == 120
\* PackedLightScalar::MAX (u8)
ScalarMax == 255

VARIABLES
    space,      \* the Space whose light is maintained: grid, blocks, lighting,
                \* lighting_update_queue, lighting_update_set, and the
                \* SpaceChange messages its last operation emitted
    call,       \* the frame of update_lighting_from_queue: pc ("idle" or
                \* "drain"), its locals, the requests popped so far and the
                \* SpaceStepInfo it returned
    twin,       \* a second Space with its own frame, given the same calls
    universe,   \* the BlockDefs, their borrow states and listeners, and the
                \* Space of voxels of the Recur blocks
    sink,       \* for each Sink: the block its listener was passed to
                \* Block::listen with, the result of that call, and the
                \* messages it received in the latest operation
    latest      \* the latest operation on the block model and its result

lightVars == <<space, call, twin>>
blockVars == <<universe, sink, latest>>

(***************************************************************************)
(* PackedLight (lighting.rs 24-59)                                         *)
(***************************************************************************)
Max2(a, b) == IF a >= b THEN a ELSE b
Min2(a, b) == IF a <= b THEN a ELSE b

\* PackedLight::INITIAL
INITIAL == <<UNIT, UNIT, UNIT>>
\* PackedLight::SKY
SKY == INITIAL

\* inner fn dm: a.max(b) - a.min(b) on u8
dm(a, b) == Max2(a, b) - Min2(a, b)

\* A plausible slip: only the first channel is compared.
difference_magnitude_first_channel(self, other) == dm(self[1], other[1])

difference_magnitude(self, other) ==
    Max2(Max2(dm(self[1], other[1]), dm(self[2], other[2])), dm(self[3], other[3]))

\* `as u8` on an f32: truncation toward zero, saturating at 0 and 255.
\* The argument is the exact quotient numerator / denominator in 1/64 units.
CastU8(num, den) ==
    IF num <= 0 THEN 0 ELSE Min2(num \div den, ScalarMax)

\* From<RGB> for PackedLight applied to incoming_light / total_rays.
PackAverage(total, rays) ==
    <<CastU8(total[1], rays), CastU8(total[2], rays), CastU8(total[3], rays)>>

Add3(a, b) == <<a[1] + b[1], a[2] + b[2], a[3] + b[3]>>

(***************************************************************************)
(* Blocks as the lighting engine sees them: the cached EvaluatedBlock of   *)
(* a cube, reduced to the fields lighting reads.                           *)
(***************************************************************************)
AirEv  == [opaque |-> FALSE, light_emission |-> <<0, 0, 0>>]
WallEv == [opaque |-> TRUE,  light_emission |-> <<0, 0, 0>>]
LampEv == [opaque |-> TRUE,  light_emission |-> <<160, 64, 0>>]
LightPalette == {AirEv, WallEv, LampEv}

(***************************************************************************)
(* Grid: the Space's bounds, lower corner at the origin.                   *)
(***************************************************************************)
GridOf(len) == <<len, 1, 1>>

contains_cube(grid, cube) ==
    \A i \in 1..3 : cube[i] >= 0 /\ cube[i] < grid[i]

CubesOf(grid) == {<<x, 0, 0>> : x \in 0..(grid[1] - 1)}

\* Space::get_evaluated: out of bounds reads as air.
get_evaluated(sp, cube) ==
    IF contains_cube(sp.grid, cube) THEN sp.blocks[cube] ELSE AirEv

\* Space::get_lighting: out of bounds reads as the sky.
get_lighting(sp, cube) ==
    IF contains_cube(sp.grid, cube) THEN sp.lighting[cube] ELSE SKY

\* initialize_lighting
initialize_lighting(grid) == [c \in CubesOf(grid) |-> INITIAL]

NewSpace(len, blocks) ==
    [grid |-> GridOf(len),
     blocks |-> blocks,
     lighting |-> initialize_lighting(GridOf(len)),
     lighting_update_queue |-> EmptyBag,
     lighting_update_set |-> {},
     emitted |-> <<>>,
     sets |-> 0]

(***************************************************************************)
(* LightUpdateRequest and its order (lighting.rs 126-144)                  *)
(***************************************************************************)
Request(priority, cube) == [priority |-> priority, cube |-> cube]

CmpInt(a, b) == IF a < b THEN -1 ELSE IF a > b THEN 1 ELSE 0
ThenWith(o, next) == IF o # 0 THEN o ELSE next

\* A plausible slip: the order compares the priority only.
cmp_priority_only(self, other) == CmpInt(self.priority, other.priority)

\* A plausible slip: the coordinates are compared before the priority.
cmp_coordinates_first(self, other) ==
    ThenWith(CmpInt(self.cube[1], other.cube[1]),
    ThenWith(CmpInt(self.cube[2], other.cube[2]),
    ThenWith(CmpInt(self.cube[3], other.cube[3]),
             CmpInt(self.priority, other.priority))))

\* impl Ord for LightUpdateRequest
cmp(self, other) ==
    ThenWith(CmpInt(self.priority, other.priority),
    ThenWith(CmpInt(self.cube[1], other.cube[1]),
    ThenWith(CmpInt(self.cube[2], other.cube[2]),
             CmpInt(self.cube[3], other.cube[3]))))

\* BinaryHeap::pop returns a greatest element; which one among several that
\* compare equal is left to the heap's internal layout.
PopCandidates(queue) ==
    {r \in BagToSet(queue) : \A r2 \in BagToSet(queue) : cmp(r, r2) >= 0}

QueueLen(queue) == BagCardinality(queue)

(***************************************************************************)
(* Space::light_needs_update (lighting.rs 147-153)                         *)
(***************************************************************************)
\* A plausible slip: the membership test is left out.
light_needs_update_no_dedup(sp, cube, priority) ==
    IF contains_cube(sp.grid, cube)
    THEN [sp EXCEPT
            !.lighting_update_queue = @ (+) SetToBag({Request(priority, cube)}),
            !.lighting_update_set = @ \cup {cube}]
    ELSE sp

\* A plausible slip: a request for a queued cube replaces the queued one when
\* its priority is higher.
light_needs_update_raise_priority(sp, cube, priority) ==
    IF ~contains_cube(sp.grid, cube) THEN sp
    ELSE IF cube \notin sp.lighting_update_set
    THEN [sp EXCEPT
            !.lighting_update_queue = @ (+) SetToBag({Request(priority, cube)}),
            !.lighting_update_set = @ \cup {cube}]
    ELSE LET lower == {r \in BagToSet(sp.lighting_update_queue) :
                          r.cube = cube /\ r.priority < priority}
         IN  IF lower = {} THEN sp
             ELSE [sp EXCEPT
                     !.lighting_update_queue =
                         (@ (-) SetToBag(lower))
                             (+) SetToBag({Request(priority, cube)})]

\* A plausible slip: the bounds test is left out.
light_needs_update_no_bounds(sp, cube, priority) ==
    IF cube \notin sp.lighting_update_set
    THEN [sp EXCEPT
            !.lighting_update_queue = @ (+) SetToBag({Request(priority, cube)}),
            !.lighting_update_set = @ \cup {cube}]
    ELSE sp

light_needs_update(sp, cube, priority) ==
    IF contains_cube(sp.grid, cube) /\ cube \notin sp.lighting_update_set
    THEN [sp EXCEPT
            !.lighting_update_queue = @ (+) SetToBag({Request(priority, cube)}),
            !.lighting_update_set = @ \cup {cube}]
    ELSE sp

(***************************************************************************)
(* LIGHT_RAYS (lighting.rs 96-120) and the ray walk.                       *)
(*                                                                         *)
(* Each face contributes 9 rays: origin a quarter cube off the centre      *)
(* along the face axis, direction the face axis plus (rayx, rayy) in       *)
(* {-1,0,1}^2 along the two other axes.  The ray leaves the origin cube    *)
(* along its face axis at t = 1/4 and crosses the other axes at t = 1/2.   *)
(* The grid has extent 1 in y and z, so an oblique ray that has entered    *)
(* the neighbour along x leaves the grid at t = 1/2, and rays along y and  *)
(* z leave the grid at t = 1/4.                                            *)
(***************************************************************************)
FaceAxes == {<<1, 0, 0>>, <<-1, 0, 0>>, <<0, 1, 0>>, <<0, -1, 0>>,
             <<0, 0, 1>>, <<0, 0, -1>>}

\* The (rayx, rayy) pairs of one face: one straight ray and the oblique ones.
RayOffsets == {<<a, b>> : a \in {-1, 0, 1}, b \in {-1, 0, 1}}
ObliqueOffsets == {o \in RayOffsets : o # <<0, 0>>}

Scale3(k, v) == <<k * v[1], k * v[2], k * v[3]>>

\* The cubes a ray along `axis` visits after `cube`, while within the grid.
StraightWalk(grid, cube, axis) ==
    LET span == grid[1] + grid[2] + grid[3]
        inside == {k \in 1..span : contains_cube(grid, Add3(cube, Scale3(k, axis)))}
    IN  [k \in 1..Cardinality(inside) |-> Add3(cube, Scale3(k, axis))]

\* Raycaster ... within_grid: cubes visited after the origin cube.
RayCubes(grid, cube, axis, oblique) ==
    IF oblique
    THEN (IF contains_cube(grid, Add3(cube, axis))
          THEN <<Add3(cube, axis)>> ELSE <<>>)
    ELSE StraightWalk(grid, cube, axis)

\* Index of the first opaque cube on the walk, 0 when the ray leaves the grid.
FirstOpaque(sp, walk) ==
    LET hits == {i \in 1..Len(walk) : get_evaluated(sp, walk[i]).opaque}
    IN  IF hits = {} THEN 0
        ELSE CHOOSE i \in hits : \A j \in hits : i <= j

\* One ray of update_lighting_now_on (lighting.rs 188-212): whether it found
\* an opaque cube, the cube struck, the cube before it (hit.previous_cube()),
\* the light the ray contributes and the cube pushed onto `dependencies`.
\* A plausible slip: a ray that leaves the grid contributes no sky light.
RayResult_no_sky(sp, cube, axis, oblique) ==
    LET walk == RayCubes(sp.grid, cube, axis, oblique)
        i == FirstOpaque(sp, walk)
    IN  IF i = 0
        THEN [found |-> FALSE, struck |-> cube, light_cube |-> cube,
              light |-> <<0, 0, 0>>]
        ELSE LET light_cube == IF i = 1 THEN cube ELSE walk[i - 1]
             IN  [found |-> TRUE, struck |-> walk[i], light_cube |-> light_cube,
                  light |-> Add3(get_evaluated(sp, walk[i]).light_emission,
                                 get_lighting(sp, light_cube))]

RayResult(sp, cube, axis, oblique) ==
    LET walk == RayCubes(sp.grid, cube, axis, oblique)
        i == FirstOpaque(sp, walk)
    IN  IF i = 0
        THEN [found |-> FALSE, struck |-> cube, light_cube |-> cube,
              light |-> SKY]
        ELSE LET light_cube == IF i = 1 THEN cube ELSE walk[i - 1]
             IN  [found |-> TRUE, struck |-> walk[i], light_cube |-> light_cube,
                  light |-> Add3(get_evaluated(sp, walk[i]).light_emission,
                                 get_lighting(sp, light_cube))]

\* Every ray of the recompute.  The walk of a ray depends only on its face
\* axis and on whether it is oblique, so each kind is walked once:
\* res[f][TRUE] stands for the oblique rays of face f, res[f][FALSE] for
\* its straight ray.
CastRays(sp, cube) ==
    [f \in FaceAxes |-> [o \in BOOLEAN |-> RayResult(sp, cube, f, o)]]

RaysOfKind(oblique) == IF oblique THEN Cardinality(ObliqueOffsets) ELSE 1

\* total_rays after the loops.
TotalRays == Cardinality(FaceAxes) * Cardinality(RayOffsets)

\* The light one face adds to incoming_light.
FaceLight(res, f) ==
    Add3(Scale3(RaysOfKind(TRUE), res[f][TRUE].light),
         Scale3(RaysOfKind(FALSE), res[f][FALSE].light))

\* incoming_light after all rays: the sum of their contributions.
SumLight(res) ==
    Add3(Add3(Add3(FaceLight(res, <<1, 0, 0>>), FaceLight(res, <<-1, 0, 0>>)),
              Add3(FaceLight(res, <<0, 1, 0>>), FaceLight(res, <<0, -1, 0>>))),
         Add3(FaceLight(res, <<0, 0, 1>>), FaceLight(res, <<0, 0, -1>>)))

\* A plausible slip: the struck cube is recorded instead of the cube before it.
DependencyOf_struck(ray) == ray.struck

\* dependencies.push(light_cube)
DependencyOf(ray) == ray.light_cube

\* The cubes pushed onto `dependencies`.
Dependencies(res) ==
    {DependencyOf(res[k[1]][k[2]]) :
        k \in {x \in FaceAxes \X BOOLEAN : res[x[1]][x[2]].found}}

\* A plausible slip: the dependencies are pushed with the greatest priority,
\* as Space::set pushes.
EnqueueAll_max_priority(sp, deps, priority) ==
    LET fresh == {c \in deps : contains_cube(sp.grid, c)
                                  /\ c \notin sp.lighting_update_set}
    IN  [sp EXCEPT
            !.lighting_update_queue =
                @ (+) SetToBag({Request(ScalarMax, c) : c \in fresh}),
            !.lighting_update_set = @ \cup fresh]

RECURSIVE EnqueueAll(_, _, _)
\* for cube in dependencies { self.light_needs_update(cube, difference_magnitude) }
EnqueueAll(sp, deps, priority) ==
    IF deps = {} THEN sp
    ELSE LET c == CHOOSE x \in deps : TRUE
         IN  EnqueueAll(light_needs_update(sp, c, priority), deps \ {c}, priority)

(***************************************************************************)
(* Space::update_lighting_now_on (lighting.rs 175-232)                     *)
(* Returns the Space afterwards and the difference magnitude, with the     *)
(* value computed and the dependencies recorded.                           *)
(***************************************************************************)
\* A plausible slip: the shortcut for an opaque origin cube is left out.
update_lighting_now_on_rays_always(sp, cube) ==
    LET res == CastRays(sp, cube)
        new_light_value == PackAverage(SumLight(res), TotalRays)
        d == difference_magnitude(new_light_value, get_lighting(sp, cube))
    IN  [space |-> IF d > 0
                   THEN EnqueueAll(
                            [sp EXCEPT !.lighting[cube] = new_light_value,
                                       !.emitted = <<[kind |-> "Lighting", cube |-> cube]>>],
                            Dependencies(res), d)
                   ELSE [sp EXCEPT !.emitted = <<>>],
         difference |-> d,
         new_light_value |-> new_light_value,
         dependencies |-> Dependencies(res)]

\* A plausible slip: the new value is stored and propagated whatever the
\* difference is.
update_lighting_now_on_propagates_always(sp, cube) ==
    LET opaque == get_evaluated(sp, cube).opaque
        res == IF opaque THEN <<>> ELSE CastRays(sp, cube)
        new_light_value ==
            PackAverage(IF opaque THEN <<0, 0, 0>> ELSE SumLight(res),
                        IF opaque THEN 1 ELSE TotalRays)
        dependencies == IF opaque THEN {} ELSE Dependencies(res)
        d == difference_magnitude(new_light_value, get_lighting(sp, cube))
    IN  [space |-> EnqueueAll(
                       [sp EXCEPT !.lighting[cube] = new_light_value,
                                  !.emitted = <<[kind |-> "Lighting", cube |-> cube]>>],
                       dependencies, d),
         difference |-> d,
         new_light_value |-> new_light_value,
         dependencies |-> dependencies]

update_lighting_now_on(sp, cube) ==
    LET opaque == get_evaluated(sp, cube).opaque
        res == IF opaque THEN <<>> ELSE CastRays(sp, cube)
        total_rays == IF opaque THEN 1 ELSE TotalRays
        incoming_light == IF opaque THEN <<0, 0, 0>> ELSE SumLight(res)
        dependencies == IF opaque THEN {} ELSE Dependencies(res)
        new_light_value == PackAverage(incoming_light, total_rays)
        old_light_value == get_lighting(sp, cube)
        d == difference_magnitude(new_light_value, old_light_value)
    IN  [space |-> IF d > 0
                   THEN EnqueueAll(
                            [sp EXCEPT !.lighting[cube] = new_light_value,
                                       !.emitted = <<[kind |-> "Lighting", cube |-> cube]>>],
                            dependencies, d)
                   ELSE [sp EXCEPT !.emitted = <<>>],
         difference |-> d,
         new_light_value |-> new_light_value,
         dependencies |-> dependencies]

(***************************************************************************)
(* One iteration of the loop of update_lighting_from_queue                 *)
(* (lighting.rs 160-167) on the request the heap pops.                     *)
(***************************************************************************)
\* A plausible slip: the popped cube stays in the dedup set.
DrainOne_keep_set(sp, r) ==
    update_lighting_now_on(
        [sp EXCEPT !.lighting_update_queue = @ (-) SetToBag({r})],
        r.cube)

\* A plausible slip: the recompute resets the popped cube's cached block.
DrainOne_resets_block(sp, r) ==
    update_lighting_now_on(
        [sp EXCEPT !.lighting_update_queue = @ (-) SetToBag({r}),
                   !.lighting_update_set = @ \ {r.cube},
                   !.blocks[r.cube] = AirEv],
        r.cube)

DrainOne(sp, r) ==
    update_lighting_now_on(
        [sp EXCEPT !.lighting_update_queue = @ (-) SetToBag({r}),
                   !.lighting_update_set = @ \ {r.cube}],
        r.cube)

\* SpaceStepInfo
StepInfo(count, sp, maxd) ==
    [light_update_count |-> count,
     light_queue_count |-> QueueLen(sp.lighting_update_queue),
     max_light_update_difference |-> maxd]

NoInfo == [light_update_count |-> -1, light_queue_count |-> -1,
           max_light_update_difference |-> -1]

(***************************************************************************)
(* Space::update_lighting_from_queue (lighting.rs 156-173), one loop       *)
(* iteration per step.  A run is a Space together with the call frame.     *)
(***************************************************************************)
\* The frame between calls.  `last` tells what the last external call did:
\* "none", "set", "pushed", "outside" (dropped, cube out of bounds),
\* "dropped" (cube already queued), "dropped_higher" (already queued, and the
\* new priority was higher than the queued one), "update".
IdleCall(last) ==
    [pc |-> "idle", light_update_count |-> 0, max_difference |-> 0,
     popped |-> <<>>, info |-> NoInfo, last |-> last]

\* if light_update_count >= 120 { break; }
\* A plausible slip: > instead of >=.
ReachedCap_gt(count) == count > BatchCap

ReachedCap(count) == count >= BatchCap

\* Entry: the two locals are zeroed.
BeginCall(run) ==
    [space |-> run.space,
     call |-> [pc |-> "drain", light_update_count |-> 0, max_difference |-> 0,
               popped |-> <<>>, info |-> NoInfo, last |-> "update"]]

\* A plausible slip: the difference of the last recompute is kept, not the
\* greatest.
Iterate_last_difference(run, r) ==
    LET res == DrainOne(run.space, r)
        count == run.call.light_update_count + 1
    IN  [space |-> res.space,
         call |-> [pc |-> IF ReachedCap(count) THEN "idle" ELSE "drain",
                   light_update_count |-> count,
                   max_difference |-> res.difference,
                   popped |-> Append(run.call.popped, r),
                   info |-> IF ReachedCap(count)
                            THEN StepInfo(count, res.space, res.difference)
                            ELSE NoInfo,
                   last |-> "update"]]

\* The loop body on the popped request r, and the return when the cap is hit.
Iterate(run, r) ==
    LET res == DrainOne(run.space, r)
        count == run.call.light_update_count + 1
        maxd == Max2(run.call.max_difference, res.difference)
    IN  [space |-> res.space,
         call |-> [pc |-> IF ReachedCap(count) THEN "idle" ELSE "drain",
                   light_update_count |-> count,
                   max_difference |-> maxd,
                   popped |-> Append(run.call.popped, r),
                   info |-> IF ReachedCap(count)
                            THEN StepInfo(count, res.space, maxd) ELSE NoInfo,
                   last |-> "update"]]

\* pop() returned None: the loop ends and the report is built.
ExitLoop(run) ==
    [space |-> run.space,
     call |-> [run.call EXCEPT
                 !.pc = "idle",
                 !.info = StepInfo(run.call.light_update_count, run.space,
                                   run.call.max_difference)]]

\* The runs one step of the call can lead to.
DrainSteps(run) ==
    IF run.call.pc # "drain" THEN {run}
    ELSE IF run.space.lighting_update_queue = EmptyBag THEN {ExitLoop(run)}
    ELSE {Iterate(run, r) : r \in PopCandidates(run.space.lighting_update_queue)}

\* The queued requests for a cube.
EntriesFor(sp, cube) == {r \in BagToSet(sp.lighting_update_queue) : r.cube = cube}

\* What a light_needs_update call does, for the record of the last call.
OutcomeOf(sp, cube, priority) ==
    IF ~contains_cube(sp.grid, cube) THEN "outside"
    ELSE IF cube \notin sp.lighting_update_set THEN "pushed"
    ELSE IF \E r \in EntriesFor(sp, cube) : priority > r.priority THEN "dropped_higher"
    ELSE "dropped"

\* An external call of light_needs_update.
CallNeedsUpdate(run, cube, priority) ==
    [space |-> [light_needs_update(run.space, cube, priority) EXCEPT !.emitted = <<>>],
     call |-> IdleCall(OutcomeOf(run.space, cube, priority))]

\* Space::set on one cube: the block and its cached evaluation are replaced,
\* the change is notified and the cube's light is scheduled.
SetCube(run, cube, ev) ==
    [space |-> light_needs_update(
                   [run.space EXCEPT !.blocks[cube] = ev, !.sets = @ + 1,
                                     !.emitted = <<[kind |-> "Block", cube |-> cube]>>],
                   cube, ScalarMax),
     call |-> IdleCall("set")]

(***************************************************************************)
(* Colours (math/color.rs).  RGBA components are integers in units of 1/2. *)
(***************************************************************************)
NN0 == 0
NN1 == 2

RGBA(r, g, b, a) == <<r, g, b, a>>
alpha(color) == color[4]
fully_transparent(color) == alpha(color) <= NN0
fully_opaque_strict(color) == alpha(color) > NN1

fully_opaque(color) == alpha(color) >= NN1

TRANSPARENT == RGBA(NN0, NN0, NN0, NN0)
BLACK == RGBA(NN0, NN0, NN0, NN1)
WHITE == RGBA(NN1, NN1, NN1, NN1)

(***************************************************************************)
(* Block, BlockAttributes and EvaluatedBlock (block.rs 36-57, 208-302)     *)
(***************************************************************************)
BlockAttributes(display_name, selectable, solid, light_emission) ==
    [display_name |-> display_name, selectable |-> selectable,
     solid |-> solid, light_emission |-> light_emission]

DEFAULT_ATTRIBUTES == BlockAttributes("", TRUE, TRUE, <<0, 0, 0>>)
AIR_ATTRIBUTES == BlockAttributes("<air>", FALSE, FALSE, <<0, 0, 0>>)

Indirect(def_ref) == [variant |-> "Indirect", def_ref |-> def_ref]
Atom(attributes, color) ==
    [variant |-> "Atom", attributes |-> attributes, color |-> color]
Recur(attributes, offset, resolution) ==
    [variant |-> "Recur", attributes |-> attributes, offset |-> offset,
     resolution |-> resolution]

AIR == Atom(AIR_ATTRIBUTES, TRANSPARENT)

None == [some |-> FALSE]
Some(v) == [some |-> TRUE, value |-> v]

EvaluatedBlock(attributes, color, voxels, opaque, visible) ==
    [attributes |-> attributes, color |-> color, voxels |-> voxels,
     opaque |-> opaque, visible |-> visible]

AIR_EVALUATED == EvaluatedBlock(AIR_ATTRIBUTES, TRANSPARENT, None, FALSE, FALSE)

(***************************************************************************)
(* Results.  RefError::InUse is the borrow conflict of a URef,             *)
(* RefError::Gone the error for a referent that no longer exists.  A call  *)
(* whose recursion never returns ends in Overflow (the stack runs out).    *)
(***************************************************************************)
Ok(v) == [returned |-> TRUE, ok |-> TRUE, value |-> v]
Err(e) == [returned |-> TRUE, ok |-> FALSE, value |-> e]
Overflow == [returned |-> FALSE, ok |-> FALSE, value |-> [error |-> "overflow"]]
InUse == [error |-> "InUse"]
Gone == [error |-> "Gone"]
Unit == [unit |-> TRUE]

(***************************************************************************)
(* The universe: NumDefs BlockDefs and one Space of voxels that Recur      *)
(* blocks refer to.                                                        *)
(*   defs[d]   the BlockDef: block, notifier (the listeners registered on  *)
(*             it)                                                         *)
(*   borrow[d] the borrow state of the URef of d: "free", "shared" or      *)
(*             "mut"; a BlockDefMut handle holds its definition "mut";     *)
(*             "gone" when the definition no longer exists                 *)
(*   former[d] the definitions d listened to until its latest commit       *)
(*   superseded[d] the definitions on which d held a gate that its latest  *)
(*             commit replaced, whether or not it listens to them again    *)
(*   voxels    the Space: its borrow state, its notifier and the colour    *)
(*             of the evaluated block of each of its cubes                 *)
(* A listener is [kind |-> "sink", id |-> l, gate |-> "none"], the         *)
(* listener of Sink l, or [kind |-> "forwarder", id |-> d, gate |-> g],    *)
(* the gated forwarder to the notifier of BlockDef d; g is "held" for the  *)
(* gate stored in d.block_listen_gate and "new" for the gate a commit has  *)
(* made and not stored yet.                                                *)
(***************************************************************************)
NumDefs == 2
NumSinks == 2

Defs == 1..NumDefs
Sinks == 1..NumSinks

SinkListener(l) == [kind |-> "sink", id |-> l, gate |-> "none"]
Forwarder(d, gate) == [kind |-> "forwarder", id |-> d, gate |-> gate]

\* URef::try_borrow and URef::try_borrow_mut, on a borrow state, and the
\* RefError of the one that fails.
try_borrow(state) == state \notin {"mut", "gone"}
try_borrow_mut(state) == state = "free"
RefErrorOf(state) == IF state = "gone" THEN Gone ELSE InUse

\* The cubes of Grid::new(offset, (resolution, resolution, resolution)).
VoxelGrid(offset, resolution) ==
    {<<offset[1] + x, offset[2] + y, offset[3] + z>> :
        x \in 0..(resolution - 1), y \in 0..(resolution - 1),
        z \in 0..(resolution - 1)}

\* Space::extract: the colour of each cube of the region, translated to the
\* origin; a cube outside the Space reads as AIR.
extract(colors, offset, resolution) ==
    [p \in VoxelGrid(<<0, 0, 0>>, resolution) |->
        LET cube == <<p[1] + offset[1], p[2] + offset[2], p[3] + offset[3]>>
        IN  IF cube \in DOMAIN colors THEN colors[cube] ELSE TRANSPARENT]

(***************************************************************************)
(* Block::evaluate (block.rs 69-119)                                       *)
(***************************************************************************)
evaluate_atom(attributes, color) ==
    EvaluatedBlock(attributes, color, None,
                   fully_opaque(color), ~fully_transparent(color))

\* A plausible slip: a block is visible only when no voxel is fully
\* transparent.
evaluate_voxels_visible_all(attributes, voxels) ==
    EvaluatedBlock(attributes, RGBA(1, 1, 1, NN1), Some(voxels),
                   \A p \in DOMAIN voxels : fully_opaque(voxels[p]),
                   \A p \in DOMAIN voxels : ~fully_transparent(voxels[p]))

evaluate_voxels(attributes, voxels) ==
    EvaluatedBlock(attributes, RGBA(1, 1, 1, NN1), Some(voxels),
                   \A p \in DOMAIN voxels : fully_opaque(voxels[p]),
                   \E p \in DOMAIN voxels : ~fully_transparent(voxels[p]))

\* A plausible slip: the resolution is used as it is.
evaluate_recur_unclamped(u, b) ==
    IF ~try_borrow(u.voxels.borrow) THEN Err(RefErrorOf(u.voxels.borrow))
    ELSE Ok(evaluate_voxels(b.attributes,
                extract(u.voxels.colors, b.offset, b.resolution)))

evaluate_recur(u, b) ==
    IF ~try_borrow(u.voxels.borrow) THEN Err(RefErrorOf(u.voxels.borrow))
    ELSE Ok(evaluate_voxels(b.attributes,
                extract(u.voxels.colors, b.offset, Max2(b.resolution, 1))))

\* An Indirect whose definition is already being evaluated further up is
\* evaluated again in the same state, without end.
RECURSIVE evaluate_within(_, _, _)
evaluate_indirect_exclusive(u, b, active) ==
    IF b.def_ref \in active THEN Overflow
    ELSE IF ~try_borrow_mut(u.borrow[b.def_ref])
         THEN Err(RefErrorOf(u.borrow[b.def_ref]))
    ELSE evaluate_within(u, u.defs[b.def_ref].block, active \cup {b.def_ref})

\* A plausible slip: a definition that cannot be borrowed evaluates as AIR.
evaluate_indirect_default(u, b, active) ==
    IF b.def_ref \in active THEN Overflow
    ELSE IF ~try_borrow(u.borrow[b.def_ref]) THEN Ok(AIR_EVALUATED)
    ELSE evaluate_within(u, u.defs[b.def_ref].block, active \cup {b.def_ref})

evaluate_indirect(u, b, active) ==
    IF b.def_ref \in active THEN Overflow
    ELSE IF ~try_borrow(u.borrow[b.def_ref])
         THEN Err(RefErrorOf(u.borrow[b.def_ref]))
    ELSE evaluate_within(u, u.defs[b.def_ref].block, active \cup {b.def_ref})

evaluate_within(u, b, active) ==
    CASE b.variant = "Indirect" -> evaluate_indirect(u, b, active)
      [] b.variant = "Atom" -> Ok(evaluate_atom(b.attributes, b.color))
      [] b.variant = "Recur" -> evaluate_recur(u, b)

evaluate(u, b) == evaluate_within(u, b, {})

(***************************************************************************)
(* Notifier, Gate and the forwarder (listen.rs).                           *)
(***************************************************************************)
\* Notifier::listen on the notifier of BlockDef d, and of the Space.
ListenDef(u, d, listener) ==
    [u EXCEPT !.defs[d].notifier = @ \cup {listener}]
ListenSpace(u, listener) ==
    [u EXCEPT !.voxels.notifier = @ \cup {listener}]

\* Dropping the gate d holds: the forwarders made with it are dead, and no
\* notifier delivers to them any more.
WithoutHeld(listeners, d) == listeners \ {Forwarder(d, "held")}

DropGate(u, d) ==
    [u EXCEPT !.defs = [t \in Defs |->
                          [u.defs[t] EXCEPT !.notifier = WithoutHeld(@, d)]],
              !.voxels.notifier = WithoutHeld(@, d)]

\* The gate made by a commit becomes the one d holds.
WithHeld(listeners, d) ==
    {IF e = Forwarder(d, "new") THEN Forwarder(d, "held") ELSE e : e \in listeners}

HoldGate(u, d) ==
    [u EXCEPT !.defs = [t \in Defs |->
                          [u.defs[t] EXCEPT !.notifier = WithHeld(@, d)]],
              !.voxels.notifier = WithHeld(@, d)]

NoDeliveries == [counts |-> [l \in Sinks |-> 0], overflow |-> FALSE]

Merge(a, b) ==
    [counts |-> [l \in Sinks |-> a.counts[l] + b.counts[l]],
     overflow |-> a.overflow \/ b.overflow]

\* Notifier::notify on the notifier of BlockDef d: what each Sink receives.
\* A forwarder passes the message to its own notifier, inside the call; a
\* notifier reached again while it is notifying does so without end.
RECURSIVE ReceiveAll(_, _, _)
notify(u, d, active) ==
    IF d \in active THEN [NoDeliveries EXCEPT !.overflow = TRUE]
    ELSE ReceiveAll(u, u.defs[d].notifier, active \cup {d})

\* A plausible slip: the forwarder owns the notifier it forwards to, which
\* then outlives its BlockDef.
upgrade_strong(u, d) == TRUE

\* The forwarder of BlockDef d reaches d's notifier through a Weak reference
\* (Rc::downgrade, block.rs 350 and 402) and is gated by the Gate d owns:
\* both are gone once the BlockDef is.
upgrade(u, d) == u.borrow[d] # "gone"

receive(u, listener, active) ==
    IF listener.kind = "sink"
    THEN [NoDeliveries EXCEPT !.counts[listener.id] = 1]
    ELSE IF upgrade(u, listener.id) THEN notify(u, listener.id, active)
    ELSE NoDeliveries

ReceiveAll(u, listeners, active) ==
    IF listeners = {} THEN NoDeliveries
    ELSE LET e == CHOOSE x \in listeners : TRUE
         IN  Merge(receive(u, e, active), ReceiveAll(u, listeners \ {e}, active))

\* The filter Block::listen puts on a listener of a Space (block.rs 144-149).
SpaceChanges == {"Block", "BlockValue", "Lighting", "Number"}

filter_all(msg) == TRUE

filter(msg) ==
    CASE msg = "Block" -> TRUE
      [] msg = "BlockValue" -> TRUE
      [] msg = "Lighting" -> FALSE
      [] msg = "Number" -> FALSE

\* Notifier::notify on the notifier of the Space.
notify_space(u, msg) ==
    IF filter(msg) THEN ReceiveAll(u, u.voxels.notifier, {}) ELSE NoDeliveries

(***************************************************************************)
(* Block::listen (block.rs 129-153)                                        *)
(***************************************************************************)
listen_atom_registers(u, b, listener) ==
    [universe |-> ListenDef(u, CHOOSE d \in Defs : TRUE, listener),
     result |-> Ok(Unit)]

listen_atom(u, b, listener) == [universe |-> u, result |-> Ok(Unit)]

\* A plausible slip: the listener is registered before the borrow is tried.
listen_registers_first(u, b, listener) ==
    CASE b.variant = "Indirect" ->
           [universe |-> ListenDef(u, b.def_ref, listener),
            result |-> IF try_borrow_mut(u.borrow[b.def_ref]) THEN Ok(Unit)
                       ELSE Err(RefErrorOf(u.borrow[b.def_ref]))]
      [] b.variant = "Atom" -> listen_atom(u, b, listener)
      [] b.variant = "Recur" ->
           [universe |-> ListenSpace(u, listener),
            result |-> IF try_borrow_mut(u.voxels.borrow) THEN Ok(Unit)
                       ELSE Err(RefErrorOf(u.voxels.borrow))]

listen(u, b, listener) ==
    CASE b.variant = "Indirect" ->
           IF ~try_borrow_mut(u.borrow[b.def_ref])
           THEN [universe |-> u, result |-> Err(RefErrorOf(u.borrow[b.def_ref]))]
           ELSE [universe |-> ListenDef(u, b.def_ref, listener),
                 result |-> Ok(Unit)]
      [] b.variant = "Atom" -> listen_atom(u, b, listener)
      [] b.variant = "Recur" ->
           IF ~try_borrow_mut(u.voxels.borrow)
           THEN [universe |-> u, result |-> Err(RefErrorOf(u.voxels.borrow))]
           ELSE [universe |-> ListenSpace(u, listener), result |-> Ok(Unit)]

(***************************************************************************)
(* BlockDef (block.rs 339-409)                                             *)
(***************************************************************************)
\* BlockDef::new(block), inserted in the universe as definition d.
BlockDef_new(u, d, block) ==
    LET listened == listen(u, block, Forwarder(d, "new")).universe
    IN  HoldGate([listened EXCEPT !.defs[d].block = block], d)

\* The two statements of Drop that swap what d listens to (block.rs
\* 402-405): listen to the block now stored with a new gated forwarder,
\* then store the new gate, which drops the old one.
swap_listening_keep_old(u, d) ==
    HoldGate(listen(u, u.defs[d].block, Forwarder(d, "new")).universe, d)

swap_listening_keep_on_failure(u, d) ==
    LET r == listen(u, u.defs[d].block, Forwarder(d, "new"))
    IN  IF r.result.ok THEN HoldGate(DropGate(r.universe, d), d)
        ELSE r.universe

swap_listening(u, d) ==
    HoldGate(DropGate(listen(u, u.defs[d].block, Forwarder(d, "new")).universe, d), d)

\* The result of that listen, which Drop discards (let _ =, block.rs 403).
swap_result(u, d) == listen(u, u.defs[d].block, Forwarder(d, "new")).result

\* What Drop writes to the log for that result: nothing, whatever it is
\* (block.rs 403; the TODO of block.rs 351-352).
swap_log(result) == <<>>

\* The notifications of Drop (block.rs 407).
drop_notify(u, d) == notify(u, d, {})

Here == [space |-> space, call |-> call]

\* Inputs of the external calls.
CubeInputs == CubesOf(GridOf(MaxGridLen)) \cup {<<-1, 0, 0>>, <<0, 1, 0>>}
PriorityInputs == {1, ScalarMax}

LightNeedsUpdate(cube, priority) ==
    /\ UNCHANGED blockVars
    /\ call.pc = "idle"
    /\ space' = CallNeedsUpdate(Here, cube, priority).space
    /\ call' = CallNeedsUpdate(Here, cube, priority).call
    /\ twin' = CallNeedsUpdate(twin, cube, priority)

SetBlock(cube, ev) ==
    /\ UNCHANGED blockVars
    /\ call.pc = "idle"
    /\ cube \in CubesOf(space.grid)
    /\ space.blocks[cube] # ev
    /\ space.sets < MaxSets
    /\ space' = SetCube(Here, cube, ev).space
    /\ call' = SetCube(Here, cube, ev).call
    /\ twin' = SetCube(twin, cube, ev)

UpdateLightingFromQueue ==
    /\ UNCHANGED blockVars
    /\ call.pc = "idle"
    /\ space' = space
    /\ call' = BeginCall(Here).call
    /\ twin' = BeginCall(twin)

LoopIteration ==
    /\ UNCHANGED blockVars
    /\ call.pc = "drain"
    /\ space.lighting_update_queue # EmptyBag
    /\ \E next \in DrainSteps(Here) : space' = next.space /\ call' = next.call
    /\ twin' \in DrainSteps(twin)

LoopExit ==
    /\ UNCHANGED blockVars
    /\ call.pc = "drain"
    /\ space.lighting_update_queue = EmptyBag
    /\ space' = ExitLoop(Here).space
    /\ call' = ExitLoop(Here).call
    /\ twin' \in DrainSteps(twin)

(***************************************************************************)
(* The block model in operation: mutation episodes of BlockDefs, borrows   *)
(* held by other code, Block::listen with Sink listeners, changes of the   *)
(* Space of voxels, Block::evaluate.  `sink` and `latest` describe the       *)
(* latest operation only.                                                  *)
(***************************************************************************)
VoxelCube == <<0, 0, 0>>
VoxelColors == {TRANSPARENT, WHITE}

\* Blocks written to definitions and listened to.
BlockInputs ==
    {Atom(DEFAULT_ATTRIBUTES, WHITE), Atom(DEFAULT_ATTRIBUTES, BLACK),
     Recur(DEFAULT_ATTRIBUTES, VoxelCube, 1)}
    \cup {Indirect(d) : d \in Defs}

\* The universe before any BlockDef is inserted, the Space holding AIR.
EmptyUniverse ==
    [defs |-> [d \in Defs |-> [block |-> AIR, notifier |-> {}]],
     borrow |-> [d \in Defs |-> "free"],
     former |-> [d \in Defs |-> {}],
     superseded |-> [d \in Defs |-> {}],
     voxels |-> [borrow |-> "free", notifier |-> {},
                 colors |-> [c \in {VoxelCube} |-> TRANSPARENT]]]

\* universe.insert(BlockDef::new(blocks[d])) for d = 1 .. n, in this order.
RECURSIVE Inserted(_, _)
Inserted(blocks, n) ==
    IF n = 0 THEN EmptyUniverse
    ELSE LET u == Inserted(blocks, n - 1)
         IN  BlockDef_new(u, n, blocks[n])

\* A BlockDef is made of a block that exists: an Indirect refers to a
\* definition inserted before.
Insertable(blocks) ==
    \A d \in Defs :
        blocks[d].variant = "Indirect" => blocks[d].def_ref < d

NoCall == [op |-> "none", arg |-> Unit, result |-> Ok(Unit)]
Running == latest.result.returned

Quiet == [l \in Sinks |-> [sink[l] EXCEPT !.received = 0]]
Received(deliveries) ==
    [l \in Sinks |-> [sink[l] EXCEPT !.received = deliveries.counts[l]]]
Unused == [listened |-> "none", received |-> 0]

Outcome(deliveries) == IF deliveries.overflow THEN Overflow ELSE Ok(Unit)

\* The definitions d listens to successfully in universe u.
ListeningTo(u, d) ==
    {t \in Defs : Forwarder(d, "held") \in u.defs[t].notifier}

\* The definitions a block's listen subscribes to (block.rs 131-134).
Targets(block) ==
    IF block.variant = "Indirect" THEN {block.def_ref} ELSE {}

\* block_def_ref.borrow_mut().modify(): the handle is obtained.
Modify(d) ==
    /\ Running
    /\ UNCHANGED lightVars
    /\ try_borrow_mut(universe.borrow[d])
    /\ universe' = [universe EXCEPT !.borrow[d] = "mut"]
    /\ sink' = Quiet
    /\ latest' = NoCall

\* *handle = block (DerefMut).
Write(d, block) ==
    /\ Running
    /\ UNCHANGED lightVars
    /\ universe.borrow[d] = "mut"
    /\ universe.defs[d].block # block
    /\ universe' = [universe EXCEPT !.defs[d].block = block]
    /\ sink' = Quiet
    /\ latest' = NoCall

\* The handle is released: Drop for BlockDefMut runs, then the borrow ends.
Drop(d) ==
    /\ Running
    /\ UNCHANGED lightVars
    /\ universe.borrow[d] = "mut"
    /\ LET swapped == swap_listening(universe, d)
           deliveries == drop_notify(swapped, d)
       IN  /\ universe' =
                 [swapped EXCEPT
                     !.borrow[d] = "free",
                     !.former[d] = ListeningTo(universe, d)
                                      \ Targets(universe.defs[d].block),
                     !.superseded[d] = ListeningTo(universe, d)]
           /\ sink' = Received(deliveries)
           /\ latest' = [op |-> "drop",
                       arg |-> [def |-> d],
                       result |-> Outcome(deliveries),
                       resubscribed |-> swap_result(universe, d),
                       logged |-> swap_log(swap_result(universe, d))]

\* Other code holds a shared borrow of d (block_def_ref.borrow()), and
\* lets go of it.
Borrow(d) ==
    /\ Running
    /\ UNCHANGED lightVars
    /\ universe.borrow[d] = "free"
    /\ universe' = [universe EXCEPT !.borrow[d] = "shared"]
    /\ sink' = Quiet
    /\ latest' = NoCall

Unborrow(d) ==
    /\ Running
    /\ UNCHANGED lightVars
    /\ universe.borrow[d] = "shared"
    /\ universe' = [universe EXCEPT !.borrow[d] = "free"]
    /\ sink' = Quiet
    /\ latest' = NoCall

\* Other code holds the Space, shared or exclusively, and lets go of it.
BorrowSpace(mode) ==
    /\ Running
    /\ UNCHANGED lightVars
    /\ universe.voxels.borrow = "free"
    /\ universe' = [universe EXCEPT !.voxels.borrow = mode]
    /\ sink' = Quiet
    /\ latest' = NoCall

UnborrowSpace ==
    /\ Running
    /\ UNCHANGED lightVars
    /\ universe.voxels.borrow # "free"
    /\ universe' = [universe EXCEPT !.voxels.borrow = "free"]
    /\ sink' = Quiet
    /\ latest' = NoCall

\* The universe lets go of definition d, or of the Space: the URefs to it
\* remain and find nothing.
Remove(d) ==
    /\ Running
    /\ UNCHANGED lightVars
    /\ universe.borrow[d] = "free"
    /\ universe' = [universe EXCEPT !.borrow[d] = "gone"]
    /\ sink' = Quiet
    /\ latest' = NoCall

RemoveSpace ==
    /\ Running
    /\ UNCHANGED lightVars
    /\ universe.voxels.borrow = "free"
    /\ universe' = [universe EXCEPT !.voxels.borrow = "gone"]
    /\ sink' = Quiet
    /\ latest' = NoCall

\* block.listen(sink.listener()) with the next unused Sink.
Listen(block) ==
    /\ Running
    /\ UNCHANGED lightVars
    /\ \E l \in Sinks :
          /\ sink[l].listened = "none"
          /\ \A k \in Sinks : k < l => sink[k].listened # "none"
          /\ LET r == listen(universe, block, SinkListener(l))
             IN  /\ universe' = r.universe
                 /\ sink' = [Quiet EXCEPT ![l] =
                               IF r.result.ok
                               THEN [listened |-> block.variant, received |-> 0]
                               ELSE Unused]
                 /\ latest' = [op |-> "listen", arg |-> block,
                               result |-> r.result]

\* Space::set on the voxel cube, by the holder of the exclusive borrow or
\* under a borrow taken for the call: the cube's evaluated colour changes
\* and SpaceChange::Block is notified.
SpaceSet(color) ==
    /\ Running
    /\ UNCHANGED lightVars
    /\ universe.voxels.borrow # "shared"
    /\ universe.voxels.colors[VoxelCube] # color
    /\ universe' = [universe EXCEPT !.voxels.colors[VoxelCube] = color]
    /\ LET deliveries == notify_space(universe, "Block")
       IN  /\ sink' = Received(deliveries)
           /\ latest' = [op |-> "notify", arg |-> "Block",
                       result |-> Outcome(deliveries)]

\* The Space notifies a change to its listeners, as Space::set does for
\* a block and update_lighting_now_on for a lighting update (lighting.rs
\* 225).
SpaceNotify(msg) ==
    /\ Running
    /\ UNCHANGED lightVars
    /\ universe.voxels.borrow # "shared"
    /\ universe' = universe
    /\ LET deliveries == notify_space(universe, msg)
       IN  /\ sink' = Received(deliveries)
           /\ latest' = [op |-> "notify", arg |-> msg,
                       result |-> Outcome(deliveries)]

\* block.evaluate()
Evaluate(block) ==
    /\ Running
    /\ UNCHANGED lightVars
    /\ universe' = universe
    /\ sink' = Quiet
    /\ latest' = [op |-> "evaluate", arg |-> block,
                result |-> evaluate(universe, block)]

\* The block model at rest: every definition holds AIR.
BlocksAtRest ==
    /\ universe = Inserted([d \in Defs |-> AIR], NumDefs)
    /\ sink = [l \in Sinks |-> Unused]
    /\ latest = NoCall

vars == <<lightVars, blockVars>>

(***************************************************************************)
(* The lighting engine on a small Space, under every interleaving of       *)
(* Space::set, light_needs_update and update_lighting_from_queue.          *)
(***************************************************************************)
InitLight ==
    /\ \E len \in 1..MaxGridLen :
          space = NewSpace(len, [c \in CubesOf(GridOf(len)) |-> AirEv])
    /\ call = IdleCall("none")
    /\ twin = [space |-> space, call |-> call]
    /\ BlocksAtRest

NextLight ==
    \/ \E cube \in CubeInputs, priority \in PriorityInputs :
          LightNeedsUpdate(cube, priority)
    \/ \E cube \in CubeInputs, ev \in LightPalette : SetBlock(cube, ev)
    \/ UpdateLightingFromQueue
    \/ LoopIteration
    \/ LoopExit

SpecLight == InitLight /\ [][NextLight]_vars

(***************************************************************************)
(* The lighting engine on a long Space with more requests queued than the  *)
(* batch cap: a row of CapLen cubes of which the first n have been set     *)
(* (each set schedules its cube), updated call after call.                 *)
(***************************************************************************)
CapLen == BatchCap + CapExtra

\* Rows: all air, or a lamp at every odd x.
RowAir(cube) == AirEv
RowLamps(cube) == IF cube[1] % 2 = 1 THEN LampEv ELSE AirEv

\* The Space after Space::set on the cubes with x < n of the row.
RowSpace(lamps, n) ==
    LET grid == GridOf(CapLen)
        done == {c \in CubesOf(grid) : c[1] < n}
    IN  [grid |-> grid,
         blocks |-> [c \in CubesOf(grid) |->
                       IF c \in done /\ lamps THEN RowLamps(c) ELSE RowAir(c)],
         lighting |-> initialize_lighting(grid),
         lighting_update_queue |-> SetToBag({Request(ScalarMax, c) : c \in done}),
         lighting_update_set |-> done,
         emitted |-> <<>>,
         sets |-> n]

InitCap ==
    /\ \E lamps \in BOOLEAN, n \in (BatchCap - 1)..CapLen :
          space = RowSpace(lamps, n)
    /\ call = IdleCall("set")
    /\ twin = [space |-> space, call |-> call]
    /\ BlocksAtRest

NextCap ==
    \/ UpdateLightingFromQueue
    \/ LoopIteration
    \/ LoopExit

SpecCap == InitCap /\ [][NextCap]_vars

(***************************************************************************)
(* The lighting engine on a Space that never holds an opaque block: the    *)
(* blocks set are air and a light-emitting block that is not opaque.       *)
(***************************************************************************)
GlassEv == [opaque |-> FALSE, light_emission |-> <<160, 64, 0>>]
ClearPalette == {AirEv, GlassEv}

NextSky ==
    \/ \E cube \in CubeInputs, priority \in PriorityInputs :
          LightNeedsUpdate(cube, priority)
    \/ \E cube \in CubeInputs, ev \in ClearPalette : SetBlock(cube, ev)
    \/ UpdateLightingFromQueue
    \/ LoopIteration
    \/ LoopExit

SpecSky == InitLight /\ [][NextSky]_vars

(***************************************************************************)
(* The block model with listeners: every interleaving of mutation          *)
(* episodes, Block::listen and notifications of the Space.                 *)
(***************************************************************************)
LightAtRest ==
    /\ space = NewSpace(1, [c \in CubesOf(GridOf(1)) |-> AirEv])
    /\ call = IdleCall("none")
    /\ twin = [space |-> space, call |-> call]

InitBlock ==
    /\ \E blocks \in [Defs -> BlockInputs] :
          /\ Insertable(blocks)
          /\ universe = Inserted(blocks, NumDefs)
    /\ sink = [l \in Sinks |-> Unused]
    /\ latest = NoCall
    /\ LightAtRest

NextBlock ==
    \/ \E d \in Defs : Modify(d)
    \/ \E d \in Defs, block \in BlockInputs : Write(d, block)
    \/ \E d \in Defs : Drop(d)
    \/ \E block \in BlockInputs : Listen(block)
    \/ \E msg \in SpaceChanges : SpaceNotify(msg)

SpecBlock == InitBlock /\ [][NextBlock]_vars

(***************************************************************************)
(* Block::evaluate in every state of the definitions and the Space: every  *)
(* interleaving of mutation episodes, borrows held by other code, changes  *)
(* of the voxels and evaluations.                                          *)
(***************************************************************************)
EvaluateInputs == {b \in BlockInputs : b.variant # "Atom"}

NextEval ==
    \/ \E d \in Defs : Modify(d)
    \/ \E d \in Defs, block \in BlockInputs : Write(d, block)
    \/ \E d \in Defs : Drop(d)
    \/ \E d \in Defs : Borrow(d)
    \/ \E d \in Defs : Unborrow(d)
    \/ \E mode \in {"shared", "mut"} : BorrowSpace(mode)
    \/ UnborrowSpace
    \/ \E color \in VoxelColors : SpaceSet(color)
    \/ \E block \in EvaluateInputs : Evaluate(block)

SpecEval == InitBlock /\ [][NextEval]_vars

(***************************************************************************)
(* Block::evaluate and Block::listen on references in every state: free,   *)
(* borrowed by a reader, borrowed exclusively, no longer existing.         *)
(***************************************************************************)
NextRef ==
    \/ \E d \in Defs : Modify(d)
    \/ \E d \in Defs : Borrow(d)
    \/ \E d \in Defs : Unborrow(d)
    \/ \E mode \in {"shared", "mut"} : BorrowSpace(mode)
    \/ UnborrowSpace
    \/ \E d \in Defs : Remove(d)
    \/ RemoveSpace
    \/ \E block \in EvaluateInputs : Evaluate(block)
    \/ \E block \in EvaluateInputs : Listen(block)

SpecRef == InitBlock /\ [][NextRef]_vars

(***************************************************************************)
(* Mutation episodes and listeners while definitions are destroyed: a      *)
(* destroyed BlockDef leaves its forwarder behind on the notifier it       *)
(* listened to.                                                            *)
(***************************************************************************)
NextGone ==
    \/ \E d \in Defs : Modify(d)
    \/ \E d \in Defs, block \in {AIR} \cup {Indirect(t) : t \in Defs} :
          Write(d, block)
    \/ \E d \in Defs : Drop(d)
    \/ \E d \in Defs : Remove(d)
    \/ \E block \in {AIR} \cup {Indirect(t) : t \in Defs} : Listen(block)

SpecGone == InitBlock /\ [][NextGone]_vars

(***************************************************************************)
(* PackedLight::difference_magnitude on pairs of packed lights whose       *)
(* channels are taken from the ends and the middle of the u8 range.        *)
(***************************************************************************)
\* self.difference_magnitude(other), on the pair that Init drew.
DifferenceMagnitude ==
    /\ latest.op = "input"
    /\ UNCHANGED <<lightVars, universe, sink>>
    /\ latest' = [latest EXCEPT
                     !.op = "difference_magnitude",
                     !.result = Ok(difference_magnitude(latest.arg.self,
                                                        latest.arg.other))]

InitDifference ==
    /\ LightAtRest
    /\ universe = Inserted([d \in Defs |-> AIR], NumDefs)
    /\ sink = [l \in Sinks |-> Unused]
    /\ LET channels == {0, 1, UNIT, ScalarMax - 1, ScalarMax}
           lights == channels \X channels \X channels
       IN  \E a \in lights, b \in lights :
          latest = [op |-> "input",
                    arg |-> [self |-> a, other |-> b],
                    result |-> Ok(Unit)]

SpecDifference == InitDifference /\ [][DifferenceMagnitude]_vars

(***************************************************************************)
(* BinaryHeap::pop under impl Ord for LightUpdateRequest, on queues of up  *)
(* to MaxQueued requests for distinct cubes that differ in x, y and z.     *)
(***************************************************************************)
MaxQueued == 3

\* self.lighting_update_queue.pop(), on the queue that Init drew.
Pop ==
    /\ latest.op = "input"
    /\ UNCHANGED <<lightVars, universe, sink>>
    /\ \E r \in PopCandidates(SetToBag(latest.arg.queue)) :
          latest' = [latest EXCEPT !.op = "pop", !.result = Ok(r)]

InitPop ==
    /\ LightAtRest
    /\ universe = Inserted([d \in Defs |-> AIR], NumDefs)
    /\ sink = [l \in Sinks |-> Unused]
    /\ LET cubes == (0..1) \X (0..1) \X (0..1)
           requests == {Request(p, c) : p \in {1, ScalarMax}, c \in cubes}
       IN  \E queue \in SUBSET requests :
              /\ Cardinality(queue) \in 1..MaxQueued
              /\ \A r1, r2 \in queue : r1.cube = r2.cube => r1 = r2
              /\ latest = [op |-> "input",
                           arg |-> [queue |-> queue],
                           result |-> Ok(Unit)]

SpecPop == InitPop /\ [][Pop]_vars

(***************************************************************************)
(* Block::evaluate on Atoms: every combination of attributes and colour    *)
(* of the sets below.                                                      *)
(***************************************************************************)
AlphaInputs == {NN0 - 1, NN0, NN0 + 1, NN1, NN1 + 1}
ColorInputs == {RGBA(r, r, b, a) : r \in {NN0, NN1}, b \in {NN0, 3 * NN1}, a \in AlphaInputs}
AttributeInputs ==
    {BlockAttributes(name, selectable, solid, light) :
        name \in {"", "hello world"}, selectable \in BOOLEAN,
        solid \in BOOLEAN, light \in {<<0, 0, 0>>, <<UNIT, UNIT, UNIT>>}}
AtomInputs == {Atom(a, c) : a \in AttributeInputs, c \in ColorInputs}

InitAtom ==
    /\ BlocksAtRest
    /\ LightAtRest

NextAtom == \E block \in AtomInputs : Evaluate(block)

SpecAtom == InitAtom /\ [][NextAtom]_vars

(***************************************************************************)
(* Block::evaluate on Recur blocks over a Space of voxels of               *)
(* MaxResolution cubes a side: one base colour, with one cube anywhere and  *)
(* the cube at <<1, 1, 1>> coloured apart.                                  *)
(***************************************************************************)
\* Alphas of the voxels: 0, 1/2 and 1.
VoxelPalette == {RGBA(NN0, NN0, NN0, a) : a \in {NN0, NN0 + 1, NN1}}

VoxelSpaceCubes == VoxelGrid(<<0, 0, 0>>, MaxResolution)
Centre == <<1, 1, 1>>

VoxelFill(base, p, c1, c2) ==
    [v \in VoxelSpaceCubes |->
        IF v = p THEN c1 ELSE IF v = Centre THEN c2 ELSE base]

RecurInputs ==
    {Recur(DEFAULT_ATTRIBUTES, offset, resolution) :
        offset \in {<<0, 0, 0>>, Centre, <<2, 0, 0>>},
        resolution \in 0..MaxResolution}

InitVoxels ==
    /\ LightAtRest
    /\ sink = [l \in Sinks |-> Unused]
    /\ latest = NoCall
    /\ \E base \in VoxelPalette, c1 \in VoxelPalette, c2 \in VoxelPalette,
          p \in VoxelSpaceCubes :
          universe = [Inserted([d \in Defs |-> AIR], NumDefs)
                         EXCEPT !.voxels.colors = VoxelFill(base, p, c1, c2)]

NextVoxels == \E block \in RecurInputs : Evaluate(block)

SpecVoxels == InitVoxels /\ [][NextVoxels]_vars

(***************************************************************************)
(* Claims about the lighting engine.                                       *)
(***************************************************************************)

\* C1: every cube coordinate appears in the lighting update queue at most
\* once, whatever light_needs_update, Space::set and
\* update_lighting_from_queue calls were made; a second light_needs_update
\* for a queued cube leaves exactly one entry for it.
C1_QueueDedup ==
    /\ \A r \in BagToSet(space.lighting_update_queue) :
          CopiesIn(r, space.lighting_update_queue) = 1
    /\ \A r1, r2 \in BagToSet(space.lighting_update_queue) :
          r1.cube = r2.cube => r1 = r2

\* A light_needs_update call for an already queued cube has just returned
\* and the queue holds one entry.
C1_Witness ==
    /\ call.last \in {"dropped", "dropped_higher"}
    /\ QueueLen(space.lighting_update_queue) = 1

\* C2: one update_lighting_from_queue call recomputes at most BatchCap (120)
\* cubes: the loop never runs with 120 recomputes done, also when recomputes
\* enqueue new requests; every request other than the one popped stays
\* queued across each iteration, so what is beyond the cap is left for
\* later calls.
C2_BatchCap ==
    /\ [](/\ Len(call.popped) <= BatchCap
          /\ call.light_update_count = Len(call.popped)
          /\ (call.pc = "drain" => Len(call.popped) < BatchCap))
    /\ [][call.pc = "drain" /\ call'.popped # call.popped =>
            \A r \in BagToSet(space.lighting_update_queue) :
               \/ r = call'.popped[Len(call'.popped)]
               \/ r \in BagToSet(space'.lighting_update_queue)]_vars

\* A call has returned at the cap, after recomputes that enqueued requests,
\* and requests are still queued.
C2_Witness ==
    /\ call.pc = "idle"
    /\ call.info # NoInfo
    /\ call.info.light_update_count = BatchCap
    /\ call.info.max_light_update_difference > 0
    /\ QueueLen(space.lighting_update_queue) > CapExtra

\* C10: two Spaces started in the same state and given the same calls have
\* identical light buffers, queues and step reports after every step, hence
\* at the end: the request the heap pops is determined by the queue's
\* contents, not by the heap's layout.
C10_Deterministic ==
    /\ twin.space.lighting = space.lighting
    /\ twin.space.lighting_update_queue = space.lighting_update_queue
    /\ twin.call.info = call.info

\* A call that recomputed several cubes and changed light has returned.
C10_Witness ==
    /\ call.pc = "idle"
    /\ call.info # NoInfo
    /\ call.info.light_update_count >= 3
    /\ call.info.max_light_update_difference > 0
    /\ \E i, j \in 1..Len(call.popped) :
          i # j /\ call.popped[i].priority = call.popped[j].priority

\* The request the step's loop iteration popped.
PoppedNow == call'.popped[Len(call'.popped)]

\* The step is a loop iteration that stored a new light for the popped cube.
StoredLight ==
    /\ call.pc = "drain"
    /\ Len(call'.popped) > Len(call.popped)
    /\ space'.lighting[PoppedNow.cube] # space.lighting[PoppedNow.cube]

\* The greatest difference between the channels of two packed lights.
ChannelGap(a, b) ==
    CHOOSE g \in 0..ScalarMax :
        /\ \A i \in 1..3 : a[i] - b[i] <= g /\ b[i] - a[i] <= g
        /\ \E i \in 1..3 : a[i] - b[i] = g \/ b[i] - a[i] = g

\* The cubes pushed onto `dependencies` by the recompute of `cube`: none
\* when the cube is opaque (no ray is cast), else the cubes before the opaque
\* cubes its rays strike.
RayDependencies(cube) ==
    IF get_evaluated(space, cube).opaque THEN {}
    ELSE Dependencies(CastRays(space, cube))

\* C20: a recompute that finds a light differing from the stored one by
\* d > 0 stores it for that cube only and emits one Lighting notification
\* for the cube; afterwards every dependency cube of the ray casting is
\* queued, and each one that was not queued when the recompute began has
\* one request, of priority d.
C20_ChangePropagates ==
    [][StoredLight =>
          LET cube == PoppedNow.cube
              d == ChannelGap(space'.lighting[cube], space.lighting[cube])
              before == space.lighting_update_queue (-) SetToBag({PoppedNow})
              queued == {r.cube : r \in BagToSet(before)}
          IN  /\ d > 0
              /\ \A c \in CubesOf(space.grid) \ {cube} :
                     space'.lighting[c] = space.lighting[c]
              /\ space'.emitted = <<[kind |-> "Lighting", cube |-> cube]>>
              /\ \A c \in RayDependencies(cube) :
                     /\ EntriesFor(space', c) # {}
                     /\ c \in space'.lighting_update_set
                     /\ c \notin queued =>
                            /\ EntriesFor(space', c) = {Request(d, c)}
                            /\ CopiesIn(Request(d, c),
                                        space'.lighting_update_queue) = 1]_vars

\* The first recompute of a call stored a new light, and a dependency cube
\* other than the recomputed one is queued with the difference as priority,
\* a priority no external call passes.
C20_Witness ==
    /\ Len(call.popped) = 1
    /\ space.emitted = <<[kind |-> "Lighting", cube |-> call.popped[1].cube]>>
    /\ call.max_difference > 0
    /\ call.max_difference \notin PriorityInputs
    /\ \E c \in RayDependencies(call.popped[1].cube) :
          /\ c # call.popped[1].cube
          /\ Request(call.max_difference, c) \in BagToSet(space.lighting_update_queue)

\* The opaque cubes the rays of the recompute of `cube` strike.
StruckCubes(cube) ==
    IF get_evaluated(space, cube).opaque THEN {}
    ELSE LET res == CastRays(space, cube)
         IN  {res[k[1]][k[2]].struck :
                 k \in {x \in FaceAxes \X BOOLEAN : res[x[1]][x[2]].found}}

\* C21: the cubes a recompute records as dependencies are the opaque cubes
\* its rays strike, and when the light changes every struck cube is queued
\* afterwards.
C21_StruckRecorded ==
    [][(call.pc = "drain" /\ Len(call'.popped) > Len(call.popped)) =>
          LET cube == PoppedNow.cube
          IN  /\ RayDependencies(cube) = StruckCubes(cube)
              /\ StoredLight =>
                     \A c \in StruckCubes(cube) : EntriesFor(space', c) # {}]_vars

\* The packed light a recompute of `cube` arrives at in the current state.
ComputedLight(cube) ==
    IF get_evaluated(space, cube).opaque THEN PackAverage(<<0, 0, 0>>, 1)
    ELSE PackAverage(SumLight(CastRays(space, cube)), TotalRays)

\* C22: a recompute that arrives at the light already stored for the cube
\* leaves the light buffer as it is, leaves the queue and the dedup set as
\* the pop left them, and emits no notification.
C22_NoChangeNoEffect ==
    [][(/\ call.pc = "drain"
        /\ Len(call'.popped) > Len(call.popped)
        /\ ComputedLight(PoppedNow.cube) = space.lighting[PoppedNow.cube]) =>
          /\ space'.lighting = space.lighting
          /\ space'.lighting_update_queue =
                 space.lighting_update_queue (-) SetToBag({PoppedNow})
          /\ space'.lighting_update_set =
                 space.lighting_update_set \ {PoppedNow.cube}
          /\ space'.emitted = <<>>]_vars

\* A recompute whose rays struck opaque cubes arrived at the stored light:
\* nothing was emitted and its dependencies were not queued.
C22_Witness ==
    /\ call.pc = "drain"
    /\ Len(call.popped) >= 1
    /\ space.emitted = <<>>
    /\ space.lighting_update_queue = EmptyBag
    /\ LET cube == call.popped[Len(call.popped)].cube
       IN  /\ ComputedLight(cube) = space.lighting[cube]
           /\ RayDependencies(cube) # {}

\* C23: the recompute of a cube whose evaluated block is opaque stores the
\* zero light for it, whatever its neighbours hold, changes no other cube's
\* light and pushes no request.
C23_OpaqueIsDark ==
    [][(/\ call.pc = "drain"
        /\ Len(call'.popped) > Len(call.popped)
        /\ get_evaluated(space, PoppedNow.cube).opaque) =>
          /\ space'.lighting =
                 [space.lighting EXCEPT ![PoppedNow.cube] = <<0, 0, 0>>]
          /\ space'.lighting_update_queue =
                 space.lighting_update_queue (-) SetToBag({PoppedNow})
          /\ space'.lighting_update_set =
                 space.lighting_update_set \ {PoppedNow.cube}]_vars

\* An opaque cube beside a lit cube that emits light was recomputed: its
\* light is zero and it is not queued again.
C23_Witness ==
    /\ call.pc = "drain"
    /\ Len(call.popped) >= 1
    /\ LET cube == call.popped[Len(call.popped)].cube
           beside == Add3(cube, <<1, 0, 0>>)
       IN  /\ get_evaluated(space, cube).opaque
           /\ cube \notin space.lighting_update_set
           /\ space.lighting[cube] = <<0, 0, 0>>
           /\ contains_cube(space.grid, beside)
           /\ get_evaluated(space, beside).light_emission # <<0, 0, 0>>
           /\ space.lighting[beside] # <<0, 0, 0>>

\* C24: a light_needs_update call for a cube that is already queued leaves
\* the queue, with the priority of every entry, and the dedup set as they
\* were, also when the priority passed is higher than the queued one.
C24_QueuedRequestKept ==
    [][(/\ call.pc = "idle"
        /\ call'.pc = "idle"
        /\ call'.last \in {"dropped", "dropped_higher"}) =>
          /\ space'.lighting_update_queue = space.lighting_update_queue
          /\ space'.lighting_update_set = space.lighting_update_set
          /\ space'.lighting = space.lighting]_vars

\* A call passed a priority higher than the one queued for the cube, and
\* the cube's entry still has the lower priority.
C24_Witness ==
    /\ call.pc = "idle"
    /\ call.last = "dropped_higher"
    /\ \E r \in BagToSet(space.lighting_update_queue) : r.priority < ScalarMax

\* C25: a light_needs_update call for a cube outside the Space's grid leaves
\* the queue and the dedup set as they were, and every cube in the queue or
\* in the dedup set lies within the grid.
C25_QueuedWithinBounds ==
    /\ [][(call.pc = "idle" /\ call'.pc = "idle" /\ call'.last = "outside") =>
            /\ space'.lighting_update_queue = space.lighting_update_queue
            /\ space'.lighting_update_set = space.lighting_update_set]_vars
    /\ [](/\ \A r \in BagToSet(space.lighting_update_queue) :
                contains_cube(space.grid, r.cube)
          /\ \A c \in space.lighting_update_set : contains_cube(space.grid, c))

\* A call for a cube outside the grid has returned while another cube is
\* queued.
C25_Witness ==
    /\ call.pc = "idle"
    /\ call.last = "outside"
    /\ space.lighting_update_set # {}

\* C26: the report of update_lighting_from_queue is accurate.  The call
\* starts with nothing popped and the greatest difference at 0; each
\* iteration pops one request and raises the greatest difference to the
\* change of the popped cube's light when that is greater; the report
\* returned holds the number of requests popped in the call, the length of
\* the queue at the return and the greatest difference.
C26_ReportAccurate ==
    /\ [][(call.pc = "idle" /\ call'.pc = "drain") =>
            /\ call'.popped = <<>>
            /\ call'.light_update_count = 0
            /\ call'.max_difference = 0]_vars
    /\ [][(call.pc = "drain" /\ Len(call'.popped) > Len(call.popped)) =>
            LET cube == PoppedNow.cube
                d == ChannelGap(space'.lighting[cube], space.lighting[cube])
            IN  /\ Len(call'.popped) = Len(call.popped) + 1
                /\ call'.light_update_count = call.light_update_count + 1
                /\ call'.max_difference =
                       IF d > call.max_difference THEN d
                       ELSE call.max_difference]_vars
    /\ [][(call.pc = "drain" /\ call'.pc = "idle") =>
            /\ call'.info.light_update_count = Len(call'.popped)
            /\ call'.info.light_queue_count =
                   QueueLen(space'.lighting_update_queue)
            /\ call'.info.max_light_update_difference = call'.max_difference
            /\ Len(call'.popped) = 0 =>
                   call'.info.max_light_update_difference = 0]_vars

\* A call has returned at the cap with requests still queued, after a
\* recompute whose difference was smaller than an earlier one's.
C26_Witness ==
    /\ call.pc = "idle"
    /\ call.info # NoInfo
    /\ call.info.light_queue_count > 0
    /\ call.info.light_queue_count = QueueLen(space.lighting_update_queue)
    /\ call.info.light_update_count = Len(call.popped)
    /\ call.info.max_light_update_difference > 0
    /\ space.emitted = <<>>

\* C27: light_needs_update and every step of update_lighting_from_queue,
\* the recomputes included, leave the grid and each cube's block (its cached
\* evaluation) as they were; only Space::set changes them.
C27_BlocksUntouched ==
    [][call'.last # "set" =>
          /\ space'.blocks = space.blocks
          /\ space'.grid = space.grid
          /\ space'.sets = space.sets]_vars

\* A recompute has stored a new light for a cube holding a block other than
\* air.
C27_Witness ==
    /\ Len(call.popped) >= 1
    /\ LET cube == call.popped[Len(call.popped)].cube
       IN  /\ space.emitted = <<[kind |-> "Lighting", cube |-> cube]>>
           /\ space.blocks[cube] # AirEv
           /\ space.lighting[cube] # INITIAL

\* C37: difference_magnitude(a, b) is the greatest absolute difference
\* between the channels of a and b: a value of 0..255, the same for (b, a),
\* and 0 exactly when a = b.
C37_DifferenceMagnitude ==
    latest.op = "difference_magnitude" =>
        LET a == latest.arg.self
            b == latest.arg.other
            d == latest.result.value
        IN  /\ d = ChannelGap(a, b)
            /\ d = ChannelGap(b, a)
            /\ d \in 0..ScalarMax
            /\ \A i \in 1..3 : a[i] - b[i] <= d /\ b[i] - a[i] <= d
            /\ d = 0 <=> a = b

\* Two packed lights with the same first channel, whose second channels
\* are 0 and 255 in the descending order and whose third are ascending.
C37_Witness ==
    /\ latest.op = "difference_magnitude"
    /\ latest.arg.self[1] = latest.arg.other[1]
    /\ latest.arg.self[2] = 0
    /\ latest.arg.other[2] = ScalarMax
    /\ latest.arg.self[3] > latest.arg.other[3]
    /\ latest.result.value = ScalarMax

\* C38: between calls (no update_lighting_from_queue call is in progress)
\* the dedup set is exactly the set of the cubes of the queued requests: no
\* queued cube is unmarked and no marked cube lacks a queue entry.
C38_SetMatchesQueue ==
    call.pc = "idle" =>
        /\ \A r \in BagToSet(space.lighting_update_queue) :
              r.cube \in space.lighting_update_set
        /\ \A cube \in space.lighting_update_set :
              \E r \in BagToSet(space.lighting_update_queue) : r.cube = cube

\* After an update_lighting_from_queue call changed the light of a cube, a
\* light_needs_update call has pushed a request and two cubes are marked,
\* while another cube of the grid is not.
C38_Witness ==
    /\ call.pc = "idle"
    /\ call.last = "pushed"
    /\ Cardinality(space.lighting_update_set) = 2
    /\ QueueLen(space.lighting_update_queue) = 2
    /\ \E cube \in CubesOf(space.grid) :
          /\ cube \notin space.lighting_update_set
          /\ space.lighting[cube] # INITIAL

\* C39: the request that pop returns is the greatest of the queued requests
\* under (priority, x, y, z): every queued request has a lower priority, or
\* the same priority and a cube that is lexicographically not greater.
C39_PopGreatest ==
    latest.op = "pop" =>
        LET r == latest.result.value
            Key(q) == <<q.priority, q.cube[1], q.cube[2], q.cube[3]>>
            Below(k, l) ==
                \E i \in 1..4 :
                    /\ k[i] < l[i]
                    /\ \A j \in 1..(i - 1) : k[j] = l[j]
        IN  /\ r \in latest.arg.queue
            /\ \A q \in latest.arg.queue \ {r} : Below(Key(q), Key(r))

\* The popped request has the same priority, x and y as another queued
\* request of lower z, and there is a queued request of lower priority for
\* a cube of greater x.
C39_Witness ==
    /\ latest.op = "pop"
    /\ LET r == latest.result.value
       IN  \E q1, q2 \in latest.arg.queue :
              /\ q1.priority = r.priority
              /\ q1.cube[1] = r.cube[1]
              /\ q1.cube[2] = r.cube[2]
              /\ q1.cube[3] < r.cube[3]
              /\ q2.priority < r.priority
              /\ q2.cube[1] > r.cube[1]

\* C40: every request a call pops was queued, and its cube marked, when it
\* was popped; the cube is unmarked before its recompute, so a recompute
\* that changes the light and has the cube itself among its dependencies
\* queues a new request for it, of the difference as priority, and the loop
\* goes on with that request queued; a recompute that does not queue the
\* cube again leaves it unmarked.
C40_RemovedBeforeRecompute ==
    [][Len(call'.popped) > Len(call.popped) =>
          LET r == call'.popped[Len(call'.popped)]
              d == ChannelGap(space'.lighting[r.cube], space.lighting[r.cube])
              again == d > 0 /\ r.cube \in RayDependencies(r.cube)
          IN  /\ CopiesIn(r, space.lighting_update_queue) = 1
              /\ r.cube \in space.lighting_update_set
              /\ again =>
                    /\ EntriesFor(space', r.cube) = {Request(d, r.cube)}
                    /\ r.cube \in space'.lighting_update_set
                    /\ call'.pc = "drain" \/ ReachedCap(call'.light_update_count)
              /\ ~again =>
                    /\ EntriesFor(space', r.cube) = {}
                    /\ r.cube \notin space'.lighting_update_set]_vars

\* Within one call a cube was recomputed, queued again by its own recompute
\* with the difference as priority, and recomputed a second time.
C40_Witness ==
    /\ call.last = "update"
    /\ \E i, j \in 1..Len(call.popped) :
          /\ i < j
          /\ call.popped[i].cube = call.popped[j].cube
          /\ call.popped[j].priority \notin PriorityInputs

\* The Space is 1x1x1 and its single cube holds an opaque block.
OneOpaqueCube ==
    /\ space.grid = GridOf(1)
    /\ space.blocks[<<0, 0, 0>>].opaque

\* C11: in a 1x1x1 Space, after the single cube is set to an opaque block,
\* one update_lighting_from_queue call recomputes exactly that cube: the
\* call starts with the cube's request queued, its first iteration leaves
\* the cube's light at zero and the queue empty, and it returns with the
\* light at zero and light_update_count = 1.
C11_OpaqueCubeAbsorbed ==
    /\ [][(call.last = "set" /\ call'.pc = "drain" /\ OneOpaqueCube') =>
            /\ QueueLen(space'.lighting_update_queue) = 1
            /\ call'.light_update_count = 0]_vars
    /\ [][(OneOpaqueCube /\ call.pc = "drain" /\ call.light_update_count = 0
              /\ space.lighting_update_queue # EmptyBag) =>
            /\ call'.pc = "drain"
            /\ call'.light_update_count = 1
            /\ space'.lighting[<<0, 0, 0>>] = <<0, 0, 0>>
            /\ space'.lighting_update_queue = EmptyBag]_vars
    /\ [][(OneOpaqueCube /\ call.pc = "drain" /\ call.light_update_count = 1) =>
            /\ call'.pc = "idle"
            /\ call'.info.light_update_count = 1
            /\ space'.lighting[<<0, 0, 0>>] = <<0, 0, 0>>]_vars

\* The single cube of a 1x1x1 Space was set once, to an opaque block, while
\* its light was the initial sky value, and the call after it has returned.
C11_Witness ==
    /\ OneOpaqueCube
    /\ space.sets = 1
    /\ call.pc = "idle"
    /\ call.last = "update"
    /\ call.info.light_update_count = 1
    /\ call.info.max_light_update_difference = UNIT
    /\ space.lighting[<<0, 0, 0>>] = <<0, 0, 0>>

\* C12: in a Space that holds no opaque block, every cube's light is the
\* sky value after any light_needs_update and update_lighting_from_queue
\* calls; every recompute has difference 0, emits no lighting notification
\* and enqueues nothing.
C12_SkyEverywhere ==
    /\ [](/\ \A c \in CubesOf(space.grid) :
                ~space.blocks[c].opaque /\ space.lighting[c] = SKY
          /\ \A i \in 1..Len(space.emitted) : space.emitted[i].kind # "Lighting"
          /\ call.max_difference = 0
          /\ call.info # NoInfo => call.info.max_light_update_difference = 0)
    /\ [][Len(call'.popped) > Len(call.popped) =>
            space'.lighting_update_queue =
                space.lighting_update_queue
                    (-) SetToBag({call'.popped[Len(call'.popped)]})]_vars

\* A call has recomputed two cubes or more of a Space that holds a
\* light-emitting block, and returned.
C12_Witness ==
    /\ call.pc = "idle"
    /\ call.info # NoInfo
    /\ call.info.light_update_count >= 2
    /\ \E c \in CubesOf(space.grid) : space.blocks[c] = GlassEv
    /\ \A c \in CubesOf(space.grid) : space.lighting[c] = SKY

\* C13 as stated: the requests processed in one update_lighting_from_queue
\* call are in order from the highest priority to the lowest.
C13_ProcessedDescending ==
    \A i, j \in 1..Len(call.popped) :
        i < j => call.popped[i].priority >= call.popped[j].priority

\* Cube a is before cube b, or is b, in the order of x, then y, then z.
CubeLeq(a, b) ==
    \/ a[1] < b[1]
    \/ a[1] = b[1] /\ a[2] < b[2]
    \/ a[1] = b[1] /\ a[2] = b[2] /\ a[3] <= b[3]

\* C13, amended: each request processed in a call is, at the moment it is
\* taken, the greatest of the requests queued: none has a higher priority,
\* and none of the same priority a greater cube.
C13_ProcessedGreatestQueued ==
    [][Len(call'.popped) > Len(call.popped) =>
         LET r == call'.popped[Len(call'.popped)]
         IN  /\ r \in BagToSet(space.lighting_update_queue)
             /\ \A q \in BagToSet(space.lighting_update_queue) :
                   \/ q.priority < r.priority
                   \/ q.priority = r.priority /\ CubeLeq(q.cube, r.cube)]_vars

\* A call has processed a request of low priority for a cube of greater x
\* after a request of high priority, and the requests of equal priority in
\* the order of their cubes.
C13_Witness ==
    /\ Len(call.popped) >= 3
    /\ \E i \in 1..(Len(call.popped) - 1) :
          /\ call.popped[i].priority > call.popped[i + 1].priority
          /\ call.popped[i].cube[1] < call.popped[i + 1].cube[1]
    /\ \E i \in 1..(Len(call.popped) - 1) :
          /\ call.popped[i].priority = call.popped[i + 1].priority
          /\ call.popped[i].cube[1] > call.popped[i + 1].cube[1]

(***************************************************************************)
(* Claims about the block model.                                           *)
(***************************************************************************)
Notifier(d) == universe.defs[d].notifier
SinksOn(d) == {l \in Sinks : SinkListener(l) \in Notifier(d)}

\* d is not in a mutation episode and the block stored in it is Indirect(t).
Contains(d, t) ==
    /\ universe.borrow[d] # "mut"
    /\ universe.defs[d].block = Indirect(t)

\* d refers to t through a chain of n or fewer such Indirects.
RECURSIVE RefersWithin(_, _, _)
RefersWithin(d, t, n) ==
    /\ n > 0
    /\ \E m \in Defs :
          Contains(d, m) /\ (m = t \/ RefersWithin(m, t, n - 1))

Refers(d, t) == RefersWithin(d, t, NumDefs)

\* C3: each mutation episode of a BlockDef (a handle obtained and released)
\* delivers exactly one BlockChange to each listener registered directly on
\* that BlockDef, whatever number of writes was made through the handle.
C3_OnePerEpisode ==
    latest.op = "drop" =>
        /\ latest.result.returned
        /\ \A l \in SinksOn(latest.arg.def) : sink[l].received = 1

\* C4: when d2 contains Indirect(d1), directly or through a longer chain of
\* Indirects, a listener registered through Indirect(d2) is notified by
\* every mutation of d1.
C4_ChainNotified ==
    latest.op = "drop" =>
        \A d2 \in Defs \ {latest.arg.def} :
            Refers(d2, latest.arg.def) =>
                \A l \in SinksOn(d2) : sink[l].received >= 1

\* d passes on what t notifies: the block stored in d is Indirect(t), or a
\* forwarder of d is registered on t.
PassesOn(d, t) ==
    \/ universe.defs[d].block = Indirect(t)
    \/ t \in ListeningTo(universe, d)

RECURSIVE PassesOnWithin(_, _, _)
PassesOnWithin(d, t, n) ==
    /\ n > 0
    /\ \E m \in Defs :
          PassesOn(d, m) /\ (m = t \/ PassesOnWithin(m, t, n - 1))

\* The block stored in d references t: it is Indirect(t), or Indirect(m)
\* for a definition m that passes on, itself or through others, what t
\* notifies.
References(d, t) ==
    \E m \in Defs :
        /\ universe.defs[d].block = Indirect(m)
        /\ (m = t \/ PassesOnWithin(m, t, NumDefs))

\* C5: once d2, which listened to d1 for an Indirect(d1) it contained, has
\* been mutated so that it references d1 no longer, a mutation of d1
\* delivers nothing to the listeners of d2.
C5_TornDown ==
    latest.op = "drop" =>
        \A d2 \in Defs \ {latest.arg.def} :
            (/\ latest.arg.def \in universe.former[d2]
             /\ ~References(d2, latest.arg.def)) =>
                \A l \in SinksOn(d2) : sink[l].received = 0

\* d1 has been mutated after d2 stopped referring to it: a listener of d1
\* was notified, a listener of d2 was not.
C5_Witness ==
    /\ latest.op = "drop"
    /\ latest.result.returned
    /\ \E d2 \in Defs \ {latest.arg.def} :
          /\ latest.arg.def \in universe.former[d2]
          /\ ~References(d2, latest.arg.def)
          /\ universe.borrow[d2] = "free"
          /\ \E l \in SinksOn(d2) : sink[l].received = 0
    /\ \E l \in SinksOn(latest.arg.def) : sink[l].received = 1

\* C6 as stated: in every state, evaluate(Indirect(d)) has the result of
\* evaluate on the block stored in d.
C6_IndirectTransparent ==
    (latest.op = "evaluate" /\ latest.arg.variant = "Indirect") =>
        latest.result = evaluate(universe, universe.defs[latest.arg.def_ref].block)

\* C6, amended: in every state where d is not exclusively borrowed,
\* evaluate(Indirect(d)) ends as evaluate on the block stored in d does:
\* with the same EvaluatedBlock, the same RefError, or in the same
\* recursion without end.
C6_IndirectTransparentUnlessHeld ==
    (/\ latest.op = "evaluate"
     /\ latest.arg.variant = "Indirect"
     /\ universe.borrow[latest.arg.def_ref] # "mut") =>
        latest.result = evaluate(universe, universe.defs[latest.arg.def_ref].block)

\* evaluate(Indirect(d)) has returned an EvaluatedBlock with voxels while d
\* is borrowed by a reader, d holding an Indirect to a Recur definition.
C6_Witness ==
    /\ latest.op = "evaluate"
    /\ latest.arg.variant = "Indirect"
    /\ universe.borrow[latest.arg.def_ref] = "shared"
    /\ universe.defs[latest.arg.def_ref].block.variant = "Indirect"
    /\ latest.result.ok
    /\ latest.result.value.voxels # None

\* C7: evaluate on Atom(attributes, color) succeeds, copies attributes and
\* colour, has no voxels; opaque iff alpha >= 1, visible iff not alpha <= 0:
\* fully transparent atoms are invisible and not opaque, fully opaque atoms
\* visible and opaque, the ones between visible and not opaque.
C7_AtomEvaluation ==
    (latest.op = "evaluate" /\ latest.arg.variant = "Atom") =>
        LET a == latest.arg.color[4]
            e == latest.result.value
        IN  /\ latest.result.ok
            /\ e.attributes = latest.arg.attributes
            /\ e.color = latest.arg.color
            /\ e.voxels = None
            /\ e.opaque <=> (a >= NN1)
            /\ e.visible <=> ~(a <= NN0)
            /\ (a <= NN0) => (~e.visible /\ ~e.opaque)
            /\ (a >= NN1) => (e.visible /\ e.opaque)
            /\ (NN0 < a /\ a < NN1) => (e.visible /\ ~e.opaque)

\* A partially transparent atom with attributes of its own has been
\* evaluated.
C7_Witness ==
    /\ latest.op = "evaluate"
    /\ latest.arg.variant = "Atom"
    /\ latest.arg.attributes # DEFAULT_ATTRIBUTES
    /\ NN0 < latest.arg.color[4]
    /\ latest.arg.color[4] < NN1
    /\ latest.result.ok
    /\ latest.result.value.visible

\* C8: Block::listen on an Atom returns Ok and registers nothing; whatever
\* happens afterwards, its listener receives no notification.
C8_AtomListenerSilent ==
    \A l \in Sinks :
        sink[l].listened = "Atom" =>
            /\ sink[l].received = 0
            /\ \A d \in Defs : SinkListener(l) \notin Notifier(d)
            /\ SinkListener(l) \notin universe.voxels.notifier

\* After a listen on an Atom, a definition has been mutated and another
\* listener was notified of it.
C8_Witness ==
    /\ latest.op = "drop"
    /\ \E l \in Sinks : sink[l].listened = "Atom" /\ sink[l].received = 0
    /\ \E l \in Sinks : sink[l].received = 1

\* C9: a listener registered through Block::listen on a Recur block
\* receives one BlockChange for each SpaceChange::Block or BlockValue of
\* the Space, and nothing for SpaceChange::Lighting or Number.
C9_RecurFilter ==
    latest.op = "notify" =>
        \A l \in Sinks :
            sink[l].listened = "Recur" =>
                sink[l].received =
                    IF latest.arg \in {"Block", "BlockValue"} THEN 1 ELSE 0

\* The Space has notified a lighting change to no listener of a Recur
\* block, which is registered on it.
C9_Witness ==
    /\ latest.op = "notify"
    /\ latest.arg = "Lighting"
    /\ \E l \in Sinks :
          /\ sink[l].listened = "Recur"
          /\ SinkListener(l) \in universe.voxels.notifier
          /\ sink[l].received = 0

\* The forwarder of d is registered where the block stored in d has it
\* listen, and nowhere else.
WiredFor(d) ==
    LET block == universe.defs[d].block
    IN  /\ ListeningTo(universe, d) = Targets(block)
        /\ Forwarder(d, "held") \in universe.voxels.notifier
              <=> block.variant = "Recur"

\* C14: a commit of d notifies with the new block stored (the writes are
\* made before the release), the previous forwarding subscription revoked
\* and the subscription for the new block established; every listener of d
\* has been notified when the release returns, and it returns.
C14_WiredBeforeNotified ==
    latest.op = "drop" =>
        /\ WiredFor(latest.arg.def)
        /\ latest.result.returned
        /\ \A l \in SinksOn(latest.arg.def) : sink[l].received >= 1

\* The universe as a listener finds it when the commit of d notifies it:
\* Drop is running, so the handle, and with it the exclusive borrow of d,
\* still exists.
AtNotification(d) == [universe EXCEPT !.borrow[d] = "mut"]

\* C15: a listener notified by the commit of d that calls
\* evaluate(Indirect(d)) and listen(Indirect(d)) inside the callback
\* succeeds in both: it gets the EvaluatedBlock of the new block, and its
\* listener is registered on d.
C15_ReactionSucceeds ==
    latest.op = "drop" =>
        LET d == latest.arg.def
            seen == AtNotification(d)
        IN  \A l \in SinksOn(d) :
                sink[l].received >= 1 =>
                    /\ evaluate(seen, Indirect(d)) = evaluate(universe, universe.defs[d].block)
                    /\ evaluate(seen, Indirect(d)).ok
                    /\ LET again == listen(seen, Indirect(d), SinkListener(l))
                       IN  /\ again.result.ok
                           /\ SinkListener(l) \in again.universe.defs[d].notifier

\* The call returned an error.
IsErr(result) == result.returned /\ ~result.ok

\* C16: for every block and every state of what it refers to, listen on
\* the block returns an error exactly when evaluate on it does.
C16_ListenFailsAsEvaluate ==
    latest.op = "evaluate" =>
        (IsErr(latest.result)
            <=> IsErr(listen(universe, latest.arg, SinkListener(1)).result))

\* The RefError of a reference lookup that fails in borrow state `state`:
\* not-found for a referent that is gone, borrow-conflict otherwise.
LookupError(state) == IF state = "gone" THEN Err(Gone) ELSE Err(InUse)

\* The first lookup that fails when block is evaluated, n Indirects deep at
\* most: evaluate borrows each definition on the way, then the Space of a
\* Recur, for reading.  None when every lookup succeeds.
RECURSIVE FailedLookup(_, _)
FailedLookup(block, n) ==
    CASE block.variant = "Atom" -> None
      [] block.variant = "Recur" ->
           IF universe.voxels.borrow \in {"mut", "gone"}
           THEN Some(LookupError(universe.voxels.borrow)) ELSE None
      [] block.variant = "Indirect" ->
           IF universe.borrow[block.def_ref] \in {"mut", "gone"}
           THEN Some(LookupError(universe.borrow[block.def_ref]))
           ELSE IF n = 0 THEN None
           ELSE FailedLookup(universe.defs[block.def_ref].block, n - 1)

\* The borrow state of what listen on block borrows, exclusively.
ListenedState(block) ==
    IF block.variant = "Indirect" THEN universe.borrow[block.def_ref]
    ELSE universe.voxels.borrow

\* C17: when a referent of the block is absent or cannot be borrowed,
\* evaluate and listen return the RefError of the lookup that failed,
\* not-found or borrow-conflict, and neither an EvaluatedBlock nor Ok; a
\* listen that failed has registered no listener.
C17_RefErrorUnchanged ==
    /\ (latest.op = "evaluate" /\ latest.result.returned) =>
          LET failed == FailedLookup(latest.arg, NumDefs)
          IN  IF failed.some THEN latest.result = failed.value
              ELSE latest.result.ok
    /\ latest.op = "listen" =>
          /\ ListenedState(latest.arg) # "free"
                => latest.result = LookupError(ListenedState(latest.arg))
          /\ ~latest.result.ok =>
                \A l \in Sinks :
                    sink[l].listened = "none" =>
                        /\ \A d \in Defs : SinkListener(l) \notin Notifier(d)
                        /\ SinkListener(l) \notin universe.voxels.notifier

\* evaluate on an Indirect to a definition that exists and is free has
\* returned not-found, for the definition its block refers to; before it a
\* listener was registered.
C17_Witness ==
    /\ latest.op = "evaluate"
    /\ latest.arg.variant = "Indirect"
    /\ universe.borrow[latest.arg.def_ref] = "free"
    /\ latest.result = Err(Gone)
    /\ \E l \in Sinks : sink[l].listened # "none"

\* C18: when the listen of a commit fails, the failure is written to the
\* log.
C18_FailureLogged ==
    (latest.op = "drop" /\ ~latest.resubscribed.ok) => latest.logged # <<>>

\* The step is the commit of d (Drop for BlockDefMut) and its listen failed.
FailedCommit(d) ==
    /\ universe.borrow[d] = "mut"
    /\ latest'.op = "drop"
    /\ latest'.arg.def = d
    /\ ~latest'.resubscribed.ok

\* C19: a commit of d whose listen failed leaves the written block stored
\* in d, leaves d subscribed to nothing (the old gate is dropped), delivers
\* exactly one notification to each listener of d, and returns to the
\* caller without an error.
C19_FailedResubscriptionNonFatal ==
    /\ [][\A d \in Defs :
              FailedCommit(d) =>
                  /\ universe'.defs[d].block = universe.defs[d].block
                  /\ universe'.borrow[d] = "free"]_vars
    /\ []((latest.op = "drop" /\ ~latest.resubscribed.ok) =>
              LET d == latest.arg.def
              IN  /\ latest.result = Ok(Unit)
                  /\ ListeningTo(universe, d) = {}
                  /\ Forwarder(d, "held") \notin universe.voxels.notifier
                  /\ Forwarder(d, "new") \notin universe.voxels.notifier
                  /\ \A t \in Defs : Forwarder(d, "new") \notin Notifier(t)
                  /\ \A l \in SinksOn(d) : sink[l].received = 1)

\* A commit whose listen failed came after d forwarded from another
\* definition, and a listener of d was notified.
C19_Witness ==
    /\ latest.op = "drop"
    /\ ~latest.resubscribed.ok
    /\ universe.former[latest.arg.def] # {}
    /\ \E l \in SinksOn(latest.arg.def) : sink[l].received = 1

\* The voxels of a result lying on one of the six faces of the block.
OnFace(voxels, p) ==
    \E i \in 1..3 :
        \/ \A q \in DOMAIN voxels : p[i] <= q[i]
        \/ \A q \in DOMAIN voxels : p[i] >= q[i]

\* A Recur block has been evaluated and the call returned a value.
RecurEvaluated ==
    /\ latest.op = "evaluate"
    /\ latest.arg.variant = "Recur"
    /\ latest.result.ok

\* C28: the EvaluatedBlock of a Recur block is visible exactly when one of
\* its voxels is not fully transparent (alpha above 0), and it is opaque
\* only if every voxel on its faces is fully opaque (alpha at least 1).
C28_RecurVisibleOpaque ==
    RecurEvaluated =>
        LET e == latest.result.value
            voxels == e.voxels.value
        IN  /\ e.voxels.some
            /\ e.visible <=> \E p \in DOMAIN voxels : voxels[p][4] > NN0
            /\ e.opaque =>
                   \A p \in DOMAIN voxels :
                       OnFace(voxels, p) => voxels[p][4] >= NN1

\* A block of at least 8 voxels with one partly transparent voxel and the
\* others fully transparent was evaluated: visible, not opaque.
C28_Witness ==
    /\ RecurEvaluated
    /\ latest.arg.resolution >= 2
    /\ LET e == latest.result.value
           voxels == e.voxels.value
       IN  /\ e.visible
           /\ ~e.opaque
           /\ \E p \in DOMAIN voxels :
                 /\ voxels[p][4] = NN0 + 1
                 /\ \A q \in DOMAIN voxels \ {p} : voxels[q][4] = NN0

\* C29: the EvaluatedBlock of a Recur block is opaque exactly when every
\* voxel on its six faces is fully opaque, whatever the voxels inside are.
C29_OpaqueBySurfaces ==
    RecurEvaluated =>
        LET e == latest.result.value
            voxels == e.voxels.value
        IN  e.opaque <=>
                \A p \in DOMAIN voxels :
                    OnFace(voxels, p) => voxels[p][4] >= NN1

\* C30: evaluate on a Recur block of resolution 0 returns a value, the one
\* it returns for resolution 1: its voxels are the single voxel <<0, 0, 0>>,
\* coloured as the cube of the Space at the block's offset.
C30_ZeroResolutionClamped ==
    (/\ latest.op = "evaluate"
     /\ latest.arg.variant = "Recur"
     /\ latest.arg.resolution = 0
     /\ universe.voxels.borrow = "free") =>
        /\ latest.result.ok
        /\ latest.result.value.voxels.some
        /\ DOMAIN latest.result.value.voxels.value = {<<0, 0, 0>>}
        /\ latest.result.value.voxels.value[<<0, 0, 0>>] =
               universe.voxels.colors[latest.arg.offset]
        /\ latest.result =
               evaluate(universe, Recur(latest.arg.attributes,
                                        latest.arg.offset, 1))

\* A block of resolution 0 was evaluated at an offset whose cube is coloured
\* apart from the cube at the origin.
C30_Witness ==
    /\ RecurEvaluated
    /\ latest.arg.resolution = 0
    /\ latest.arg.offset # <<0, 0, 0>>
    /\ universe.voxels.colors[latest.arg.offset]
           # universe.voxels.colors[<<0, 0, 0>>]
    /\ latest.result.value.visible

\* C31: a listener registered through Indirect(d) stays on d's notifier
\* through every later operation, and each later commit of d delivers
\* exactly one notification to it, whatever block was written to d.
C31_IndirectListenerKept ==
    /\ [][\A d \in Defs, l \in Sinks :
              SinkListener(l) \in universe.defs[d].notifier =>
                  SinkListener(l) \in universe'.defs[d].notifier]_vars
    /\ [](latest.op = "drop" =>
              \A l \in SinksOn(latest.arg.def) :
                  sink[l].listened = "Indirect" =>
                      /\ sink[l].received = 1
                      /\ latest.result.returned)

\* The definition, or the Space, that `block` refers to is exclusively
\* borrowed in universe u.
HeldExclusively(u, block) ==
    \/ block.variant = "Indirect" /\ u.borrow[block.def_ref] = "mut"
    \/ block.variant = "Recur" /\ u.voxels.borrow = "mut"

\* C32: evaluate and listen on a block whose definition or Space is
\* exclusively borrowed return Err(InUse), and the call leaves the
\* definitions, the borrows and every set of listeners as they were.
C32_ConflictFailsCleanly ==
    /\ []((latest.op \in {"evaluate", "listen"}
             /\ HeldExclusively(universe, latest.arg)) =>
              /\ latest.result.returned
              /\ latest.result = Err(InUse))
    /\ [][(latest'.op \in {"evaluate", "listen"}
             /\ HeldExclusively(universe, latest'.arg)) =>
              /\ universe' = universe
              /\ \A l \in Sinks : sink'[l].listened = sink[l].listened]_vars

\* listen(Indirect(d)) has failed on an exclusively borrowed d on whose
\* notifier an earlier listener is registered.
C32_Witness ==
    /\ latest.op = "listen"
    /\ latest.arg.variant = "Indirect"
    /\ HeldExclusively(universe, latest.arg)
    /\ latest.result = Err(InUse)
    /\ SinksOn(latest.arg.def_ref) # {}

\* C33: when the latest commit of d2 replaced the gate of its subscription
\* to d1, a commit of d1 returns and delivers exactly one notification to
\* each other listener registered on d1's notifier.
C33_OthersStillNotified ==
    (/\ latest.op = "drop"
     /\ \E d2 \in Defs \ {latest.arg.def} :
           latest.arg.def \in universe.superseded[d2]) =>
        /\ latest.result.returned
        /\ \A l \in SinksOn(latest.arg.def) : sink[l].received = 1

\* C34: after BlockDef d has been destroyed, a commit of a definition d was
\* listening to delivers nothing to the listeners that were registered on
\* d, and when d's forwarder is the only one on the committed definition
\* the commit returns without error.
C34_DestroyedNotReached ==
    latest.op = "drop" =>
        \A d \in Defs :
            universe.borrow[d] = "gone" =>
                /\ \A l \in SinksOn(d) : sink[l].received = 0
                /\ (\A t \in Defs \ {d} :
                        Forwarder(t, "held") \notin Notifier(latest.arg.def)) =>
                       latest.result = Ok(Unit)

\* A definition was committed while the forwarder of a destroyed definition,
\* on which a listener had been registered, was on its notifier; its own
\* listener was notified.
C34_Witness ==
    /\ latest.op = "drop"
    /\ \E d \in Defs :
          /\ universe.borrow[d] = "gone"
          /\ Forwarder(d, "held") \in Notifier(latest.arg.def)
          /\ SinksOn(d) # {}
    /\ \E l \in SinksOn(latest.arg.def) : sink[l].received = 1

\* C35: every call of Block::evaluate returns, with Ok or Err, in every
\* state of the universe.
C35_EvaluateReturns ==
    latest.op = "evaluate" => latest.result.returned

\* C36: the notification of every commit of a BlockDef returns, having
\* called each listener a finite number of times.
C36_DeliveryReturns ==
    latest.op = "drop" => latest.result = Ok(Unit)

====
